---- MODULE Spec2Model ----
(***************************************************************************)
(* Model of the in-memory matchmaking engine of the anonymous chat bot:    *)
(* the waiting queue, the pair registry, the per-user session store and    *)
(* the command handlers that drive them.  Handlers run to completion       *)
(* between two awaits (one JavaScript thread), so every action below is    *)
(* the synchronous stretch of one handler.                                 *)
(***************************************************************************)
EXTENDS Integers, Sequences, FiniteSets, TLC

VARIABLES
    waitingQueue,     \* matchmaking: array of { userId, chatId, gender, preference }
    activePairs,      \* matchmaking: Map userId -> { partnerId, partnerChatId }
    userChatIds,      \* matchmaking: Map userId -> chatId
    userStates,       \* userState: Map userId -> { state, gender, preference, chatStartTime }
    userSettings,     \* userState: Map userId -> { typingIndicator, gender }
    statUpdates,      \* userState: the updateAndPersistStats calls of the current handler
    reportedUsers,    \* userState: Map userId -> { count, lastReportTime, banUntil }
    reportsInSession, \* userState: Set of reporter_reported keys
    skippedPartners,  \* userState: Map userId -> { partnerId, partnerChatId, timestamp }
    responses,        \* messages handed to the response callback by the current handler
    joinLanguage,     \* options.language of each user's latest accepted handleJoin call
    joinFilters,      \* options.gender / options.preference of the same call, kept for
                      \* the users the specification observes
    undoOutcome,      \* handleUndoSkip: the reply it sent and the age of the record it read
    revealRequests,   \* userState: Map pairKey -> { requesterId }
    sent,             \* Telegram calls made by the report and reveal handlers
    pending,          \* handlers suspended at the await in front of matchmaking.handleJoin
    now,              \* Date.now() in milliseconds
    cmA, cmB,         \* the two users handed to canMatch
    cmResult,         \* canMatch(cmA, cmB)
    cmSwapped,        \* canMatch(cmB, cmA)
    cmDone,           \* canMatch has been evaluated
    dv,               \* one payload forwarded by two different senders, and what
                      \* the response callback delivered for each
    net,              \* index.js: the Bot API requests in flight and the order in
                      \* which they completed
    pc                \* partyClient: ws, reconnectAttempts, isConnecting, the
                      \* sockets created and the reconnect timers pending

vars == << waitingQueue, activePairs, userChatIds, userStates, userSettings,
           statUpdates, reportedUsers, reportsInSession, skippedPartners,
           responses, joinLanguage, joinFilters, undoOutcome, revealRequests,
           sent, pending, now, cmA, cmB, cmResult, cmSwapped, cmDone, dv,
           net, pc >>

engineVars == << waitingQueue, activePairs, userChatIds, userStates, userSettings,
                 statUpdates, reportedUsers, reportsInSession, skippedPartners,
                 responses, joinLanguage, joinFilters, undoOutcome, revealRequests,
                 sent, pending, now >>

cmVars == << cmA, cmB, cmResult, cmSwapped, cmDone >>

----------------------------------------------------------------------------
(* Bounds and input domains *)

MaxUpdates == 2      \* SpecOrder: text updates the webhook receives
MaxSockets == 3      \* SpecClient: WebSocket objects created
MaxTicks == 3        \* clock ticks explored
MaxPending == 2      \* Spec: handlers suspended in front of handleJoin at one time
MaxPendingFilter == 1   \* SpecFilter: the same
MaxPendingLanguage == 1 \* SpecLanguage: the same
MaxPendingSkip == 1     \* SpecSkip: the same
MaxPendingUndo == 1     \* SpecUndo: the same
MaxPendingReport == 1   \* SpecReport: the same
MaxReports == 6         \* SpecReport: accepted reports against one user
MaxPendingReveal == 1   \* SpecReveal: handlers suspended in front of handleJoin
MaxPendingTyping == 1   \* SpecTyping: the same
MaxPendingGuard == 1    \* SpecRevealGuard: the same
MaxPendingOrder == 1    \* SpecOrder: the same

Users == {1, 2, 3}
ChatOf(u) == u + 100             \* delivery address of the chat user u writes from
Unset == "unset"                 \* JavaScript undefined / null
Payloads == {"hello"}

\* userState.js
\* 10 * 1000 milliseconds
UNDO_TIMEOUT == 10000

\* reports needed for the 24 hour ban
LONG_BAN_THRESHOLD == 5

\* a temporary ban that needs one report more
TempBanAtFour == LONG_BAN_THRESHOLD - 1

\* reports needed for the 30 minute ban
TEMP_BAN_THRESHOLD == 3

\* 30 * 60 * 1000 milliseconds
TEMP_BAN_DURATION == 1800000

\* 24 * 60 * 60 * 1000 milliseconds
LONG_BAN_DURATION == 86400000

\* the clock advances in steps of half the undo window
TickMs == UNDO_TIMEOUT \div 2
USER_STATES == [ IDLE |-> "idle",
                 SELECTING_GENDER |-> "selecting_gender",
                 SELECTING_PREFERENCE |-> "selecting_preference",
                 SELECTING_LANGUAGE |-> "selecting_language",
                 SEARCHING |-> "searching",
                 IN_CHAT |-> "in_chat",
                 CONFIRMING_REPORT |-> "confirming_report",
                 SETTING_AGE |-> "setting_age" ]

\* menus.js: the buttons of the preference and language keyboards
PreferenceButtons == {"male", "female", "any"}
LanguageButtons == {"english", "hindi", "any"}
GenderSettings == {"male", "female", "any"}

----------------------------------------------------------------------------
(* JavaScript Map and Array helpers *)

MapHas(m, k) == k \in DOMAIN m
MapSet(m, k, v) == [x \in (DOMAIN m) \cup {k} |-> IF x = k THEN v ELSE m[x]]
MapDelete(m, k) == [x \in (DOMAIN m) \ {k} |-> m[x]]
EmptyMap == [x \in {} |-> 0]

\* Array.prototype.findIndex, 1-based; 0 stands for -1
FindIndex(arr, P(_)) ==
    IF \E i \in 1..Len(arr) : P(arr[i])
    THEN CHOOSE i \in 1..Len(arr) : P(arr[i]) /\ \A j \in 1..(i - 1) : ~P(arr[j])
    ELSE 0

\* slice in place of splice: the array is left as it was
SpliceKeeps(arr, i) == arr

\* Array.prototype.splice(i, 1): the array without its i-th element
Splice(arr, i) == SubSeq(arr, 1, i - 1) \o SubSeq(arr, i + 1, Len(arr))

----------------------------------------------------------------------------
(* The state the handlers work on, as one record *)

\* handleJoin(userId, chatId) with options = {}
NoFilter == [gender |-> Unset, preference |-> Unset]

\* nothing was forwarded for comparison
NoDelivery == [done |-> FALSE]

\* no Bot API request was started
NetIdle == [inflight |-> {}, completed |-> <<>>, updates |-> 0]

\* partyClient.js after module load: ws = null, reconnectAttempts = 0,
\* isConnecting = false; disconnected records that disconnect() closed an open
\* connection and the caller has not called connect() since
ClientIdle == [ws |-> 0, sockets |-> <<>>, reconnectAttempts |-> 0,
               isConnecting |-> FALSE, timers |-> 0, disconnected |-> FALSE]

\* no undo request was handled
NoUndo == [reply |-> "none", age |-> 0]

Cur == [ waitingQueue |-> waitingQueue, activePairs |-> activePairs,
         userChatIds |-> userChatIds, userStates |-> userStates,
         userSettings |-> userSettings, statUpdates |-> <<>>,
         reportedUsers |-> reportedUsers, reportsInSession |-> reportsInSession,
         skippedPartners |-> skippedPartners, responses |-> <<>>,
         joinLanguage |-> joinLanguage, joinFilters |-> joinFilters,
         undoOutcome |-> NoUndo, revealRequests |-> revealRequests,
         sent |-> <<>>, now |-> now ]

Commit(S) ==
    /\ waitingQueue' = S.waitingQueue
    /\ activePairs' = S.activePairs
    /\ userChatIds' = S.userChatIds
    /\ userStates' = S.userStates
    /\ userSettings' = S.userSettings
    /\ statUpdates' = S.statUpdates
    /\ reportedUsers' = S.reportedUsers
    /\ reportsInSession' = S.reportsInSession
    /\ skippedPartners' = S.skippedPartners
    /\ responses' = S.responses
    /\ joinLanguage' = S.joinLanguage
    /\ joinFilters' = S.joinFilters
    /\ undoOutcome' = S.undoOutcome
    /\ revealRequests' = S.revealRequests
    /\ sent' = S.sent
    /\ now' = S.now

----------------------------------------------------------------------------
(* userState.js *)

NoState == [state |-> Unset, gender |-> Unset, preference |-> Unset, chatStartTime |-> 0]
IdleState == [NoState EXCEPT !.state = USER_STATES.IDLE]

getUserState(S, userId) ==
    IF MapHas(S.userStates, userId) THEN S.userStates[userId] ELSE IdleState

\* setUserState(userId, state) with the default extra = {}
setUserState(S, userId, state) ==
    LET current == IF MapHas(S.userStates, userId) THEN S.userStates[userId] ELSE NoState
    IN [S EXCEPT !.userStates = MapSet(@, userId, [current EXCEPT !.state = state])]

\* setUserState(userId, state, { gender, preference }): the spread writes both keys
setUserStateExtra(S, userId, state, gender, preference) ==
    LET current == IF MapHas(S.userStates, userId) THEN S.userStates[userId] ELSE NoState
    IN [S EXCEPT !.userStates = MapSet(@, userId,
            [current EXCEPT !.state = state, !.gender = gender, !.preference = preference])]

clearUserState(S, userId) == [S EXCEPT !.userStates = MapDelete(@, userId)]

setUserGender(S, userId, gender, preference) ==
    LET current == IF MapHas(S.userStates, userId) THEN S.userStates[userId] ELSE IdleState
    IN [S EXCEPT !.userStates = MapSet(@, userId,
            [current EXCEPT !.gender = gender, !.preference = preference])]

\* getUserGender(userId) || {}: the session's filters, both unset without a session
getUserGender(S, userId) ==
    IF MapHas(S.userStates, userId)
    THEN [gender |-> S.userStates[userId].gender,
          preference |-> S.userStates[userId].preference, language |-> Unset]
    ELSE [gender |-> Unset, preference |-> Unset, language |-> Unset]

\* settings that are never read back from the store
getUserSettingsDefault(S, userId) == [typingIndicator |-> TRUE, gender |-> "any"]

getUserSettings(S, userId) ==
    IF MapHas(S.userSettings, userId) THEN S.userSettings[userId]
    ELSE [typingIndicator |-> TRUE, gender |-> "any"]

updateUserSettingsGender(S, userId, gender) ==
    [S EXCEPT !.userSettings = MapSet(@, userId, [getUserSettings(S, userId) EXCEPT !.gender = gender])]

toggleTypingIndicator(S, userId) ==
    [S EXCEPT !.userSettings = MapSet(@, userId,
        [getUserSettings(S, userId) EXCEPT !.typingIndicator = ~@])]

getUserGenderSetting(S, userId) == getUserSettings(S, userId).gender

\* updateAndPersistStats(userId, { ...current, field: current.field + amount }):
\* the statistics store is the persistence collaborator; the model keeps the
\* writes a handler issues, each adding `amount` to one field of one user
updateAndPersistStats(S, userId, field, amount) ==
    [S EXCEPT !.statUpdates = Append(@, [userId |-> userId, field |-> field, amount |-> amount])]

incrementChatCount(S, userId) == updateAndPersistStats(S, userId, "chats", 1)

incrementMessageCount(S, userId) == updateAndPersistStats(S, userId, "messages", 1)

addChatDuration(S, userId, durationMs) ==
    updateAndPersistStats(S, userId, "totalDuration", durationMs)

markChatStart(S, userId) ==
    LET current == IF MapHas(S.userStates, userId) THEN S.userStates[userId] ELSE IdleState
    IN [S EXCEPT !.userStates = MapSet(@, userId, [current EXCEPT !.chatStartTime = S.now])]

endChatAndRecordDuration(S, userId) ==
    IF MapHas(S.userStates, userId) /\ S.userStates[userId].chatStartTime # 0
    THEN LET S1 == addChatDuration(S, userId, S.now - S.userStates[userId].chatStartTime)
         IN [S1 EXCEPT !.userStates[userId].chatStartTime = 0]
    ELSE S

\* isUserBanned: the answer, and the state after its lazy clearing of an expired ban
isUserBanned(S, userId) ==
    /\ MapHas(S.reportedUsers, userId)
    /\ S.reportedUsers[userId].banUntil # 0
    /\ ~(S.now > S.reportedUsers[userId].banUntil)

isUserBannedState(S, userId) ==
    IF /\ MapHas(S.reportedUsers, userId)
       /\ S.reportedUsers[userId].banUntil # 0
       /\ S.now > S.reportedUsers[userId].banUntil
    THEN [S EXCEPT !.reportedUsers[userId].banUntil = 0]
    ELSE S

\* a session that remembers no report
alreadyReportedNever(S, reporterId, reportedId) == FALSE

\* reportUser: reportsInSession.has(sessionKey)
alreadyReported(S, reporterId, reportedId) ==
    << reporterId, reportedId >> \in S.reportsInSession

NoReport == [count |-> 0, lastReportTime |-> 0, banUntil |-> 0]

reportUser(S, reporterId, reportedId) ==
    IF alreadyReported(S, reporterId, reportedId)
    THEN S
    ELSE
      LET current == IF MapHas(S.reportedUsers, reportedId)
                     THEN S.reportedUsers[reportedId]
                     ELSE NoReport
          count == current.count + 1
          banUntil == IF count >= LONG_BAN_THRESHOLD THEN S.now + LONG_BAN_DURATION
                      ELSE IF count >= TEMP_BAN_THRESHOLD THEN S.now + TEMP_BAN_DURATION
                      ELSE current.banUntil
      IN [S EXCEPT !.reportsInSession = @ \cup {<< reporterId, reportedId >>},
                   !.reportedUsers = MapSet(@, reportedId,
                        [count |-> count, lastReportTime |-> S.now,
                         banUntil |-> banUntil])]

clearSessionReports(S, userId1, userId2) ==
    [S EXCEPT !.reportsInSession = @ \ {<<userId1, userId2>>, <<userId2, userId1>>}]

\* a skip that is not recorded
setSkippedPartnerNone(S, userId, partnerId, partnerChatId) == S

setSkippedPartner(S, userId, partnerId, partnerChatId) ==
    [S EXCEPT !.skippedPartners = MapSet(@, userId,
        [partnerId |-> partnerId, partnerChatId |-> partnerChatId, timestamp |-> S.now])]

\* getSkippedPartner: Date.now() - data.timestamp; 0 without a record
skipAge(S, userId) ==
    IF MapHas(S.skippedPartners, userId)
    THEN S.now - S.skippedPartners[userId].timestamp
    ELSE 0

\* an expiry test that already fails at the limit
skipExpiredAtLimit(S, userId) ==
    MapHas(S.skippedPartners, userId) /\ skipAge(S, userId) >= UNDO_TIMEOUT

\* getSkippedPartner: whether a record is returned, and the state after lazy expiry
skipExpired(S, userId) ==
    MapHas(S.skippedPartners, userId) /\ skipAge(S, userId) > UNDO_TIMEOUT

hasSkippedPartner(S, userId) ==
    MapHas(S.skippedPartners, userId) /\ ~skipExpired(S, userId)

getSkippedPartnerState(S, userId) ==
    IF skipExpired(S, userId)
    THEN [S EXCEPT !.skippedPartners = MapDelete(@, userId)]
    ELSE S

\* a record that outlives the undo
clearSkippedPartnerKept(S, userId) == S

clearSkippedPartner(S, userId) == [S EXCEPT !.skippedPartners = MapDelete(@, userId)]

\* a key that depends on the order of the two users
getPairKeyOrdered(userId1, userId2) == << userId1, userId2 >>

\* [userId1, userId2].sort().join('_')
getPairKey(userId1, userId2) ==
    IF userId1 <= userId2 THEN << userId1, userId2 >> ELSE << userId2, userId1 >>

\* getRevealRequest(...) === null
NoRequest == [requesterId |-> 0, username |-> Unset, timestamp |-> 0]

setRevealRequest(S, requesterId, partnerId, username) ==
    [S EXCEPT !.revealRequests = MapSet(@, getPairKey(requesterId, partnerId),
        [requesterId |-> requesterId, username |-> username, timestamp |-> S.now])]

getRevealRequest(S, userId1, userId2) ==
    IF MapHas(S.revealRequests, getPairKey(userId1, userId2))
    THEN S.revealRequests[getPairKey(userId1, userId2)]
    ELSE NoRequest

\* a guard that never finds the requester's own request
hasUserRequestedRevealNever(S, requesterId, partnerId) == FALSE

hasUserRequestedReveal(S, requesterId, partnerId) ==
    /\ getRevealRequest(S, requesterId, partnerId) # NoRequest
    /\ getRevealRequest(S, requesterId, partnerId).requesterId = requesterId

\* a request that stays stored
clearRevealRequestKept(S, userId1, userId2) == S

clearRevealRequest(S, userId1, userId2) ==
    [S EXCEPT !.revealRequests = MapDelete(@, getPairKey(userId1, userId2))]

----------------------------------------------------------------------------
(* matchmaking.js: the engine *)

Msg(type, userId, chatId) ==
    [ type |-> type, userId |-> userId, chatId |-> chatId,
      partnerId |-> 0, partnerChatId |-> 0,
      gender |-> Unset, preference |-> Unset,
      payload |-> "", fromUserId |-> 0 ]

\* a dispatcher that is invoked twice for each message
sendResponseTwice(S, message) == [S EXCEPT !.responses = Append(Append(@, message), message)]

\* responseCallback is registered when commands.js is loaded, so it is never null
sendResponse(S, message) == [S EXCEPT !.responses = Append(@, message)]

\* canMatch without its branch for "user2 has no specific preference"
canMatchOneWay(user1, user2) ==
    IF user1.gender = Unset \/ user2.gender = Unset THEN TRUE
    ELSE IF user1.preference = Unset \/ user1.preference = "any"
         THEN IF user2.preference = Unset \/ user2.preference = "any"
              THEN TRUE
              ELSE user2.preference = user1.gender
         ELSE user1.preference = user2.gender /\ user2.preference = user1.gender

\* canMatch that takes "any" for a specific preference
canMatchAnyIsSpecific(user1, user2) ==
    IF user1.gender = Unset \/ user2.gender = Unset THEN TRUE
    ELSE IF user1.preference = Unset
         THEN IF user2.preference = Unset
              THEN TRUE
              ELSE user2.preference = user1.gender
         ELSE IF user2.preference = Unset
              THEN user1.preference = user2.gender
              ELSE user1.preference = user2.gender /\ user2.preference = user1.gender

\* canMatch that looks at the preference of user1 only
canMatchJoinerOnly(user1, user2) ==
    IF user1.gender = Unset \/ user2.gender = Unset THEN TRUE
    ELSE IF user1.preference = Unset \/ user1.preference = "any"
         THEN TRUE
         ELSE user1.preference = user2.gender

canMatch(user1, user2) ==
    IF user1.gender = Unset \/ user2.gender = Unset THEN TRUE
    ELSE IF user1.preference = Unset \/ user1.preference = "any"
         THEN IF user2.preference = Unset \/ user2.preference = "any"
              THEN TRUE
              ELSE user2.preference = user1.gender
         ELSE IF user2.preference = Unset \/ user2.preference = "any"
              THEN user1.preference = user2.gender
              ELSE user1.preference = user2.gender /\ user2.preference = user1.gender

isInChat(S, userId) == MapHas(S.activePairs, userId)

isInQueue(S, userId) == \E i \in 1..Len(S.waitingQueue) : S.waitingQueue[i].userId = userId

\* a duplicate check that never finds the user
existingInQueueMissed(queue, userId) == FALSE

\* handleJoin: waitingQueue.find(u => u.userId === userId)
existingInQueue(queue, userId) == \E i \in 1..Len(queue) : queue[i].userId = userId

\* a scan that looks at the oldest entry only
matchIndexOfHead(queue, userData) ==
    IF /\ Len(queue) > 0
       /\ queue[1].userId # userData.userId
       /\ canMatch(userData, queue[1])
    THEN 1
    ELSE 0

\* a scan that returns the newest compatible entry instead of the oldest
matchIndexOfNewest(queue, userData) ==
    LET ok(i) == queue[i].userId # userData.userId /\ canMatch(userData, queue[i])
    IN IF \E i \in 1..Len(queue) : ok(i)
       THEN CHOOSE i \in 1..Len(queue) : ok(i) /\ \A j \in (i + 1)..Len(queue) : ~ok(j)
       ELSE 0

\* handleJoin: waitingQueue.findIndex(u => u.userId !== userId && canMatch(userData, u))
matchIndexOf(queue, userData) ==
    FindIndex(queue, LAMBDA u : u.userId # userData.userId /\ canMatch(userData, u))

\* a pair whose second entry names its own key as the partner
createPairSelf(pairs, userId, chatId, partnerId, partnerChatId) ==
    MapSet(MapSet(pairs, userId, [partnerId |-> partnerId, partnerChatId |-> partnerChatId]),
           partnerId, [partnerId |-> partnerId, partnerChatId |-> partnerChatId])

\* the two activePairs.set calls of handleJoin and of reconnectPair
createPair(pairs, userId, chatId, partnerId, partnerChatId) ==
    MapSet(MapSet(pairs, userId, [partnerId |-> partnerId, partnerChatId |-> partnerChatId]),
           partnerId, [partnerId |-> userId, partnerChatId |-> chatId])

\* the filters of an accepted handleJoin call of an observed user; a user who
\* left holds none
recordJoin(S, userId, filters) ==
    IF MapHas(S.joinFilters, userId)
    THEN [S EXCEPT !.joinFilters[userId] = filters]
    ELSE S

\* an insertion at the head of the array
pushFront(queue, userData) == << userData >> \o queue

\* waitingQueue.push(userData)
push(queue, userData) == Append(queue, userData)

handleJoin(S, userId, chatId, options) ==
    LET gender == options.gender
        preference == options.preference
        S1 == [S EXCEPT !.userChatIds = MapSet(@, userId, chatId)]
    IN
    IF MapHas(S1.activePairs, userId)
    THEN sendResponse(S1, Msg("already_chatting", userId, chatId))
    ELSE IF existingInQueue(S1.waitingQueue, userId)
    THEN sendResponse(S1, Msg("already_waiting", userId, chatId))
    ELSE
      LET S2 == setUserStateExtra(
                   recordJoin([S1 EXCEPT !.joinLanguage[userId] = options.language],
                              userId, [gender |-> gender, preference |-> preference]),
                   userId, USER_STATES.SEARCHING, gender, preference)
          userData == [userId |-> userId, chatId |-> chatId,
                       gender |-> gender, preference |-> preference]
          matchIndex == matchIndexOf(S2.waitingQueue, userData)
      IN
      IF matchIndex # 0
      THEN
        LET partner == S2.waitingQueue[matchIndex]
            S3 == [S2 EXCEPT !.waitingQueue = Splice(@, matchIndex),
                             !.activePairs = createPair(@, userId, chatId,
                                                        partner.userId, partner.chatId)]
            S4 == setUserState(setUserState(S3, userId, USER_STATES.IN_CHAT),
                               partner.userId, USER_STATES.IN_CHAT)
            S5 == markChatStart(markChatStart(S4, userId), partner.userId)
            S6 == incrementChatCount(incrementChatCount(S5, userId), partner.userId)
        IN sendResponse(S6, [Msg("matched", userId, chatId) EXCEPT
                                !.partnerId = partner.userId,
                                !.partnerChatId = partner.chatId])
      ELSE
        sendResponse([S2 EXCEPT !.waitingQueue = push(@, userData)],
                     [Msg("waiting", userId, chatId) EXCEPT
                         !.gender = gender, !.preference = preference])

\* a break that leaves the partner's Registry entry in place
breakPairOneSided(S, userId) ==
    LET partnerId == S.activePairs[userId].partnerId
        partnerChatId == S.activePairs[userId].partnerChatId
        S1 == [S EXCEPT !.activePairs = MapDelete(@, userId)]
    IN sendResponse(setUserState(S1, partnerId, USER_STATES.IDLE),
                    Msg("partner_left", partnerId, partnerChatId))

\* the part handleLeave and handleNext share: break the pair and tell the partner
breakPair(S, userId) ==
    LET partnerId == S.activePairs[userId].partnerId
        partnerChatId == S.activePairs[userId].partnerChatId
        S1 == endChatAndRecordDuration(endChatAndRecordDuration(S, userId), partnerId)
        S2 == clearSessionReports(S1, userId, partnerId)
        S3 == [S2 EXCEPT !.activePairs = MapDelete(MapDelete(@, userId), partnerId)]
        S4 == setUserState(S3, partnerId, USER_STATES.IDLE)
    IN sendResponse(S4, Msg("partner_left", partnerId, partnerChatId))

\* a removal that leaves the queue as it was
removeFromQueueSkipped(queue, userId) == queue

\* findIndex(u => u.userId === userId) followed by splice(index, 1) when found
removeFromQueue(queue, userId) ==
    LET queueIndex == FindIndex(queue, LAMBDA u : u.userId = userId)
    IN IF queueIndex # 0 THEN Splice(queue, queueIndex) ELSE queue

handleLeave(S, userId) ==
    LET S1 == [S EXCEPT !.waitingQueue = removeFromQueue(@, userId)]
        S2 == IF MapHas(S1.activePairs, userId) THEN breakPair(S1, userId) ELSE S1
        S3 == clearUserState(S2, userId)
    IN recordJoin([S3 EXCEPT !.userChatIds = MapDelete(@, userId)], userId, NoFilter)

handleNext(S, userId, chatId) ==
    LET genderInfo == getUserGender(S, userId)
    IN
    IF MapHas(S.activePairs, userId)
    THEN handleJoin(sendResponse(breakPair(S, userId), Msg("skipped", userId, chatId)),
                    userId, chatId, genderInfo)
    ELSE
      sendResponse([S EXCEPT !.waitingQueue = removeFromQueue(@, userId)],
                   Msg("not_in_chat", userId, chatId))

handleMessage(S, userId, messageData) ==
    IF ~MapHas(S.activePairs, userId)
    THEN IF MapHas(S.userChatIds, userId)
         THEN sendResponse(S, Msg("not_in_chat", userId, S.userChatIds[userId]))
         ELSE S
    ELSE
      LET pair == S.activePairs[userId]
      IN sendResponse(incrementMessageCount(S, userId),
                      [Msg("forward_message", pair.partnerId, pair.partnerChatId) EXCEPT
                          !.payload = messageData, !.fromUserId = userId])

handleTyping(S, userId) ==
    IF ~MapHas(S.activePairs, userId)
    THEN S
    ELSE
      LET pair == S.activePairs[userId]
      IN sendResponse(S, [Msg("typing", pair.partnerId, pair.partnerChatId) EXCEPT
                             !.fromUserId = userId])

\* a reconnect that does not look at the partner's Registry entry
reconnectPairAlways(S, partnerId) == TRUE

\* reconnectPair: whether it succeeds, and the state it leaves
reconnectPairSuccess(S, partnerId) == ~MapHas(S.activePairs, partnerId)

reconnectPair(S, userId, partnerId, chatId, partnerChatId) ==
    IF ~reconnectPairSuccess(S, partnerId)
    THEN S
    ELSE
      LET S1 == [S EXCEPT !.waitingQueue = removeFromQueue(removeFromQueue(@, userId),
                                                           partnerId),
                          !.userChatIds = MapSet(MapSet(@, userId, chatId),
                                                 partnerId, partnerChatId),
                          !.activePairs = createPair(@, userId, chatId,
                                                     partnerId, partnerChatId)]
          S2 == setUserState(setUserState(S1, userId, USER_STATES.IN_CHAT),
                             partnerId, USER_STATES.IN_CHAT)
          S3 == markChatStart(markChatStart(S2, userId), partnerId)
      IN incrementChatCount(incrementChatCount(S3, userId), partnerId)

----------------------------------------------------------------------------
(* telegram.js: the body of each Bot API request *)

\* answerCallbackQuery names the query, not a chat
answerCallbackQuery(text) ==
    [ method |-> "answerCallbackQuery", chat_id |-> 0, text |-> text,
      keyboard |-> Unset, media |-> Unset, caption |-> Unset ]

TelegramCall(method, chatId) ==
    [ method |-> method, chat_id |-> chatId, text |-> Unset, keyboard |-> Unset,
      media |-> Unset, caption |-> Unset ]

sendMessage(chatId, text) == [TelegramCall("sendMessage", chatId) EXCEPT !.text = text]

sendMessageWithKeyboard(chatId, text, keyboard) ==
    [TelegramCall("sendMessage", chatId) EXCEPT !.text = text, !.keyboard = keyboard]

\* sendPhoto, sendVideo, sendAnimation, sendDocument: the caption is optional
sendCaptioned(method, chatId, fileId, caption) ==
    [TelegramCall(method, chatId) EXCEPT !.media = fileId, !.caption = caption]

\* sendSticker, sendVoice, sendVideoNote
sendMedia(method, chatId, fileId) == [TelegramCall(method, chatId) EXCEPT !.media = fileId]

sendTypingAction(chatId) == TelegramCall("sendChatAction", chatId)

----------------------------------------------------------------------------
(* commands.js: the handlers the webhook dispatches to *)

JoinOptions(gender, preference, language) ==
    [gender |-> gender, preference |-> preference, language |-> language]

\* the handler is suspended at `await sendMessageWithKeyboard(...)`; what follows
\* the await is the call matchmaking.handleJoin(userId, chatId, options)
Suspend(userId, chatId, options) ==
    LET p == [userId |-> userId, chatId |-> chatId, options |-> options]
    IN /\ p \notin pending
       /\ pending' = pending \cup {p}

HandleStart(u) ==
    /\ IF isInChat(Cur, u) THEN Commit(Cur) ELSE Commit(clearUserState(Cur, u))
    /\ UNCHANGED << pending, cmVars, dv, net, pc >>

HandleFind(u) ==
    /\ Commit(isUserBannedState(Cur, u))
    /\ IF isUserBanned(Cur, u)
       THEN UNCHANGED pending
       ELSE Suspend(u, ChatOf(u), JoinOptions(Unset, Unset, Unset))
    /\ UNCHANGED << cmVars, dv, net, pc >>

HandleGenderSelect(u) ==
    /\ IF isUserBanned(Cur, u)
       THEN Commit(isUserBannedState(Cur, u))
       ELSE Commit(setUserState(isUserBannedState(Cur, u), u,
                                USER_STATES.SELECTING_PREFERENCE))
    /\ UNCHANGED << pending, cmVars, dv, net, pc >>

HandlePreferenceChoice(u, preference) ==
    /\ getUserState(Cur, u).state = USER_STATES.SELECTING_PREFERENCE
    /\ LET gender == getUserGenderSetting(Cur, u)
       IN /\ Commit(setUserGender(Cur, u, gender, preference))
          /\ Suspend(u, ChatOf(u), JoinOptions(gender, preference, Unset))
    /\ UNCHANGED << cmVars, dv, net, pc >>

HandleLanguageSelect(u) ==
    /\ IF isUserBanned(Cur, u)
       THEN Commit(isUserBannedState(Cur, u))
       ELSE Commit(setUserState(isUserBannedState(Cur, u), u,
                                USER_STATES.SELECTING_LANGUAGE))
    /\ UNCHANGED << pending, cmVars, dv, net, pc >>

HandleLanguageChoice(u, language) ==
    /\ getUserState(Cur, u).state = USER_STATES.SELECTING_LANGUAGE
    /\ Commit(Cur)
    /\ Suspend(u, ChatOf(u), JoinOptions(Unset, Unset, language))
    /\ UNCHANGED << cmVars, dv, net, pc >>

\* the continuation of handleFind / handlePreferenceChoice / handleLanguageChoice
JoinResume(p) ==
    /\ p \in pending
    /\ Commit(handleJoin(Cur, p.userId, p.chatId, p.options))
    /\ pending' = pending \ {p}
    /\ UNCHANGED << cmVars, dv, net, pc >>

HandleNext(u) ==
    /\ LET S1 == IF MapHas(Cur.activePairs, u)
                 THEN setSkippedPartner(Cur, u, Cur.activePairs[u].partnerId,
                                        Cur.activePairs[u].partnerChatId)
                 ELSE Cur
       IN Commit(clearUserState(handleNext(S1, u, ChatOf(u)), u))
    /\ UNCHANGED << pending, cmVars, dv, net, pc >>

HandleUndoSkip(u) ==
    /\ IF ~hasSkippedPartner(Cur, u)
       THEN Commit([getSkippedPartnerState(Cur, u) EXCEPT
                      !.undoOutcome = [reply |-> "expired", age |-> skipAge(Cur, u)]])
       ELSE LET skippedPartner == Cur.skippedPartners[u]
                result == reconnectPairSuccess(Cur, skippedPartner.partnerId)
                S1 == reconnectPair(Cur, u, skippedPartner.partnerId, ChatOf(u),
                                    skippedPartner.partnerChatId)
            IN Commit([clearSkippedPartner(S1, u) EXCEPT
                         !.undoOutcome = [reply |-> IF result THEN "reconnected"
                                                    ELSE "partner_busy",
                                          age |-> skipAge(Cur, u)]])
    /\ UNCHANGED << pending, cmVars, dv, net, pc >>

HandleStop(u) ==
    /\ IF isInChat(Cur, u) \/ isInQueue(Cur, u)
       THEN Commit(clearSkippedPartner(clearUserState(handleLeave(Cur, u), u), u))
       ELSE Commit(Cur)
    /\ UNCHANGED << pending, cmVars, dv, net, pc >>

HandleBack(u) ==
    /\ Commit(clearUserState(Cur, u))
    /\ UNCHANGED << pending, cmVars, dv, net, pc >>

\* handleTextMessage for a text that is no menu button
HandleTextMessage(u, text) ==
    /\ IF getUserState(Cur, u).state \in
            { USER_STATES.SELECTING_GENDER, USER_STATES.SELECTING_PREFERENCE,
              USER_STATES.SELECTING_LANGUAGE, USER_STATES.SETTING_AGE }
       THEN Commit(Cur)
       ELSE IF ~isInChat(Cur, u)
            THEN Commit(Cur)
            ELSE Commit(handleMessage(Cur, u, text))
    /\ UNCHANGED << pending, cmVars, dv, net, pc >>

send(S, call) == [S EXCEPT !.sent = Append(@, call)]

HandleReport(u) ==
    /\ IF ~MapHas(Cur.activePairs, u)
       THEN Commit(send(Cur, sendMessageWithKeyboard(ChatOf(u), "notInChat",
                                                     "mainMenuKeyboard")))
       ELSE Commit(send(setUserState(Cur, u, USER_STATES.CONFIRMING_REPORT),
                        sendMessageWithKeyboard(ChatOf(u), "confirmReport",
                                                "reportConfirmKeyboard")))
    /\ UNCHANGED << pending, cmVars, dv, net, pc >>

HandleReportConfirm(u) ==
    /\ IF ~MapHas(Cur.activePairs, u)
       THEN Commit(send(clearUserState(Cur, u),
                        sendMessageWithKeyboard(ChatOf(u), "notInChat",
                                                "mainMenuKeyboard")))
       ELSE LET partnerId == Cur.activePairs[u].partnerId
                S1 == clearUserState(reportUser(Cur, u, partnerId), u)
            IN IF alreadyReported(Cur, u, partnerId)
               THEN Commit(send(S1, sendMessageWithKeyboard(ChatOf(u), "alreadyReported",
                                                            "inChatKeyboard")))
               ELSE Commit(send(S1, sendMessageWithKeyboard(ChatOf(u), "reported",
                                                            "inChatKeyboard")))
    /\ UNCHANGED << pending, cmVars, dv, net, pc >>

HandleReportCancel(u) ==
    /\ Commit(send(clearUserState(Cur, u),
                   sendMessageWithKeyboard(ChatOf(u), "reportCancelled",
                                           "inChatKeyboard")))
    /\ UNCHANGED << pending, cmVars, dv, net, pc >>

\* server/commands.js, handleReveal: the Reveal button
HandleReveal(u) ==
    /\ IF ~MapHas(Cur.activePairs, u)
       THEN Commit(send(Cur, sendMessageWithKeyboard(ChatOf(u), "notInChat",
                                                     "mainMenuKeyboard")))
       ELSE
         LET partnerId == Cur.activePairs[u].partnerId
             partnerChatId == Cur.activePairs[u].partnerChatId
             existingRequest == getRevealRequest(Cur, u, partnerId)
         IN
         IF hasUserRequestedReveal(Cur, u, partnerId)
         THEN Commit(send(Cur, sendMessage(ChatOf(u), "alreadyRequested")))
         ELSE IF existingRequest # NoRequest /\ existingRequest.requesterId = partnerId
         THEN Commit(send(send(clearRevealRequest(Cur, u, partnerId),
                               sendMessageWithKeyboard(ChatOf(u), "revealAccepted",
                                                       "inChatKeyboard")),
                          sendMessageWithKeyboard(partnerChatId, "revealAccepted",
                                                  "inChatKeyboard")))
         ELSE Commit(send(send(setRevealRequest(Cur, u, partnerId, Unset),
                               sendMessage(ChatOf(u), "revealSent")),
                          sendMessageWithKeyboard(partnerChatId, "revealReceived",
                                                  "revealConfirmKeyboard")))
    /\ UNCHANGED << pending, cmVars, dv, net, pc >>

\* server/commands.js, handleCallbackQuery, case reveal_accept
RevealAccept(u) ==
    /\ IF ~MapHas(Cur.activePairs, u)
       THEN Commit(send(Cur, answerCallbackQuery("noLongerInChat")))
       ELSE
         LET partnerId == Cur.activePairs[u].partnerId
             partnerChatId == Cur.activePairs[u].partnerChatId
         IN
         IF getRevealRequest(Cur, u, partnerId) = NoRequest
         THEN Commit(send(Cur, answerCallbackQuery("revealExpired")))
         ELSE Commit(send(send(send(clearRevealRequest(Cur, u, partnerId),
                                    answerCallbackQuery("revealAccepted")),
                               sendMessageWithKeyboard(ChatOf(u), "revealAccepted",
                                                       "inChatKeyboard")),
                          sendMessageWithKeyboard(partnerChatId, "revealAccepted",
                                                  "inChatKeyboard")))
    /\ UNCHANGED << pending, cmVars, dv, net, pc >>

\* server/commands.js, handleCallbackQuery, case reveal_decline
RevealDecline(u) ==
    /\ IF ~MapHas(Cur.activePairs, u)
       THEN Commit(send(Cur, answerCallbackQuery("noLongerInChat")))
       ELSE
         LET partnerId == Cur.activePairs[u].partnerId
             partnerChatId == Cur.activePairs[u].partnerChatId
         IN Commit(send(send(send(clearRevealRequest(Cur, u, partnerId),
                                  answerCallbackQuery("revealDeclined")),
                             sendMessage(partnerChatId, "revealDeclined")),
                        sendMessage(ChatOf(u), "youDeclined")))
    /\ UNCHANGED << pending, cmVars, dv, net, pc >>

\* handleCallbackQuery, case toggle_typing
ToggleTyping(u) ==
    /\ Commit(toggleTypingIndicator(Cur, u))
    /\ UNCHANGED << pending, cmVars, dv, net, pc >>

HandleTypingFromUser(u) ==
    /\ IF ~MapHas(Cur.activePairs, u)
       THEN Commit(Cur)
       ELSE IF getUserSettings(Cur, Cur.activePairs[u].partnerId).typingIndicator
            THEN Commit(handleTyping(Cur, u))
            ELSE Commit(Cur)
    /\ UNCHANGED << pending, cmVars, dv, net, pc >>

\* handleCallbackQuery, case set_gender_male / set_gender_female / set_gender_any
SetGenderSetting(u, gender) ==
    /\ Commit(updateUserSettingsGender(Cur, u, gender))
    /\ UNCHANGED << pending, cmVars, dv, net, pc >>

\* the clock advances between handlers
Tick ==
    /\ now < TickMs * (MaxTicks + 1)
    /\ Commit([Cur EXCEPT !.now = now + TickMs])
    /\ UNCHANGED << pending, cmVars, dv, net, pc >>

----------------------------------------------------------------------------
(* commands.js: the response callback of the engine *)

\* a callback that signs the forwarded text with its sender
handleMatchmakingMessageSigned(message) ==
    << sendMessage(message.chatId, << message.fromUserId, message.payload.text >>) >>

\* commands.js, handleMatchmakingMessage: the requests it makes for one message of
\* the engine; message.payload holds { text, mediaType, fileId, caption }
handleMatchmakingMessage(message) ==
    LET chatId == message.chatId
    IN
    IF message.type = "matched"
    THEN << sendMessageWithKeyboard(chatId, "partnerFound", "inChatKeyboard"),
            sendMessageWithKeyboard(message.partnerChatId, "partnerFound",
                                    "inChatKeyboard") >>
    ELSE IF message.type = "waiting" THEN <<>>
    ELSE IF message.type = "already_chatting"
    THEN << sendMessageWithKeyboard(chatId, "alreadyInChat", "inChatKeyboard") >>
    ELSE IF message.type = "already_waiting"
    THEN << sendMessageWithKeyboard(chatId, "alreadySearching", "searchingKeyboard") >>
    ELSE IF message.type = "not_in_chat"
    THEN << sendMessageWithKeyboard(chatId, "notInChat", "mainMenuKeyboard") >>
    ELSE IF message.type = "partner_left"
    THEN << sendMessageWithKeyboard(chatId, "partnerLeft", "mainMenuKeyboard") >>
    ELSE IF message.type = "forward_message"
    THEN
      LET mediaType == message.payload.mediaType
          fileId == message.payload.fileId
          caption == message.payload.caption
          text == message.payload.text
      IN
      IF mediaType = "photo" THEN << sendCaptioned("sendPhoto", chatId, fileId, caption) >>
      ELSE IF mediaType = "video"
      THEN << sendCaptioned("sendVideo", chatId, fileId, caption) >>
      ELSE IF mediaType = "sticker" THEN << sendMedia("sendSticker", chatId, fileId) >>
      ELSE IF mediaType = "voice" THEN << sendMedia("sendVoice", chatId, fileId) >>
      ELSE IF mediaType = "animation"
      THEN << sendCaptioned("sendAnimation", chatId, fileId, caption) >>
      ELSE IF mediaType = "video_note"
      THEN << sendMedia("sendVideoNote", chatId, fileId) >>
      ELSE IF mediaType = "document"
      THEN << sendCaptioned("sendDocument", chatId, fileId, caption) >>
      ELSE IF text # Unset THEN << sendMessage(chatId, text) >> ELSE <<>>
    ELSE IF message.type = "skipped"
    THEN << sendMessageWithKeyboard(chatId, "partnerSkipped", "skippedKeyboard") >>
    ELSE IF message.type = "typing" THEN << sendTypingAction(chatId) >>
    ELSE IF message.type = "error"
    THEN << sendMessageWithKeyboard(chatId, "error", "mainMenuKeyboard") >>
    ELSE <<>>

\* what the recipient is sent when sender, paired with recipient, forwards messageData
Delivered(sender, recipient, messageData) ==
    LET S == [Cur EXCEPT !.activePairs = createPair(EmptyMap, sender, ChatOf(sender),
                                                    recipient, ChatOf(recipient))]
    IN handleMatchmakingMessage(handleMessage(S, sender, messageData).responses[1])

EvalDeliver ==
    /\ ~dv.done
    /\ dv' = [dv EXCEPT !.done = TRUE,
                        !.outA = Delivered(dv.senderA, dv.recipient, dv.messageData),
                        !.outB = Delivered(dv.senderB, dv.recipient, dv.messageData)]
    /\ UNCHANGED << engineVars, cmVars, net, pc >>

----------------------------------------------------------------------------
(* matchmaking.js: the exported operations of the engine, called one at a time *)

EngineJoin(u) ==
    /\ Commit(handleJoin(Cur, u, ChatOf(u), JoinOptions(Unset, Unset, Unset)))
    /\ UNCHANGED << pending, cmVars, dv, net, pc >>

EngineLeave(u) ==
    /\ Commit(handleLeave(Cur, u))
    /\ UNCHANGED << pending, cmVars, dv, net, pc >>

EngineNext(u) ==
    /\ Commit(handleNext(Cur, u, ChatOf(u)))
    /\ UNCHANGED << pending, cmVars, dv, net, pc >>

EngineMessage(u, messageData) ==
    /\ Commit(handleMessage(Cur, u, messageData))
    /\ UNCHANGED << pending, cmVars, dv, net, pc >>

EngineTyping(u) ==
    /\ Commit(handleTyping(Cur, u))
    /\ UNCHANGED << pending, cmVars, dv, net, pc >>

----------------------------------------------------------------------------
(* party/room.js: MatchmakingRoom, the engine of the PartyKit deployment.  It   *)
(* keeps a waitingQueue, an activePairs map and a connections map of its own    *)
(* (modelled by waitingQueue, activePairs and userChatIds) and answers with     *)
(* sender.send (modelled by responses).                                         *)

roomHandleJoin(S, userId, chatId) ==
    IF MapHas(S.activePairs, userId)
    THEN sendResponse(S, Msg("already_chatting", userId, chatId))
    ELSE IF existingInQueue(S.waitingQueue, userId)
    THEN sendResponse(S, Msg("already_waiting", userId, chatId))
    ELSE
      LET S1 == [S EXCEPT !.userChatIds = MapSet(@, userId, chatId)]
          matchIndex == FindIndex(S1.waitingQueue, LAMBDA u : u.userId # userId)
      IN
      IF matchIndex # 0
      THEN
        LET partner == S1.waitingQueue[matchIndex]
            S2 == [S1 EXCEPT !.waitingQueue = Splice(@, matchIndex),
                             !.activePairs = createPair(@, userId, chatId,
                                                        partner.userId, partner.chatId)]
            S3 == sendResponse(S2, [Msg("matched", userId, chatId) EXCEPT
                                       !.partnerId = partner.userId,
                                       !.partnerChatId = partner.chatId])
        IN sendResponse(S3, [Msg("matched", partner.userId, partner.chatId) EXCEPT
                                !.partnerId = userId,
                                !.partnerChatId = chatId])
      ELSE
        sendResponse([S1 EXCEPT !.waitingQueue =
                         push(@, [userId |-> userId, chatId |-> chatId,
                                  gender |-> Unset, preference |-> Unset])],
                     Msg("waiting", userId, chatId))

\* the part handleLeave and handleNext of the room share
roomBreakPair(S, userId) ==
    IF MapHas(S.activePairs, userId)
    THEN LET partnerId == S.activePairs[userId].partnerId
             partnerChatId == S.activePairs[userId].partnerChatId
         IN sendResponse([S EXCEPT !.activePairs = MapDelete(MapDelete(@, userId), partnerId)],
                         Msg("partner_left", partnerId, partnerChatId))
    ELSE S

roomHandleLeave(S, userId) ==
    LET S1 == roomBreakPair([S EXCEPT !.waitingQueue = removeFromQueue(@, userId)], userId)
    IN [S1 EXCEPT !.userChatIds = MapDelete(@, userId)]

roomHandleNext(S, userId, chatId) ==
    LET S1 == roomBreakPair(S, userId)
        S2 == [S1 EXCEPT !.waitingQueue = removeFromQueue(@, userId)]
    IN roomHandleJoin(sendResponse(S2, Msg("skipped", userId, chatId)), userId, chatId)

roomHandleMessage(S, userId, text) ==
    IF ~MapHas(S.activePairs, userId)
    THEN IF MapHas(S.userChatIds, userId)
         THEN sendResponse(S, Msg("not_in_chat", userId, S.userChatIds[userId]))
         ELSE S
    ELSE LET pair == S.activePairs[userId]
         IN sendResponse(S, [Msg("forward_message", pair.partnerId, pair.partnerChatId) EXCEPT
                                !.payload = text, !.fromUserId = userId])

\* onMessage, one case per message type
RoomJoin(u) ==
    /\ Commit(roomHandleJoin(Cur, u, ChatOf(u)))
    /\ UNCHANGED << pending, cmVars, dv, net, pc >>

RoomLeave(u) ==
    /\ Commit(roomHandleLeave(Cur, u))
    /\ UNCHANGED << pending, cmVars, dv, net, pc >>

RoomNext(u) ==
    /\ Commit(roomHandleNext(Cur, u, ChatOf(u)))
    /\ UNCHANGED << pending, cmVars, dv, net, pc >>

RoomMessage(u, text) ==
    /\ Commit(roomHandleMessage(Cur, u, text))
    /\ UNCHANGED << pending, cmVars, dv, net, pc >>

----------------------------------------------------------------------------
(* index.js: the webhook answers 200 at once and runs the handler; the Bot API *)
(* requests the handler and the response callback start are not awaited by the *)
(* webhook, so they stay in flight after the handler has returned              *)

\* the async function that makes `calls` one after the other has started the
\* first of them
Outbound(update, from, k, calls) ==
    [update |-> update, from |-> from, k |-> k, call |-> Head(calls), rest |-> Tail(calls)]

\* one entry of `lists` for each async function the handler invoked
StartAll(N, from, lists) ==
    LET update == N.updates + 1
        started == {k \in 1..Len(lists) : lists[k] # <<>>}
    IN [N EXCEPT !.updates = update,
                 !.inflight = @ \cup {Outbound(update, from, k, lists[k]) : k \in started}]

\* app.post('/webhook'), a text that is neither a command nor a menu button:
\* handleTypingFromUser(userId), then handleTextMessage(message, userId, chatId)
WebhookText(u, text) ==
    /\ net.updates < MaxUpdates
    /\ LET messageData == [text |-> text, mediaType |-> Unset,
                           fileId |-> Unset, caption |-> Unset]
           S1 == IF /\ MapHas(Cur.activePairs, u)
                    /\ getUserSettings(Cur, Cur.activePairs[u].partnerId).typingIndicator
                 THEN handleTyping(Cur, u)
                 ELSE Cur
           S2 == IF isInChat(S1, u) THEN handleMessage(S1, u, messageData) ELSE S1
           replies == IF isInChat(S1, u)
                      THEN <<>>
                      ELSE << << sendMessageWithKeyboard(ChatOf(u), "notInChat",
                                                         "mainMenuKeyboard") >> >>
           lists == [i \in 1..Len(S2.responses) |->
                        handleMatchmakingMessage(S2.responses[i])] \o replies
       IN /\ Commit(S2)
          /\ net' = StartAll(net, u, lists)
    /\ UNCHANGED << pending, cmVars, dv, pc >>

\* the fetch of one request resolves; the async function that awaited it goes
\* on to its next request
SendCompletes(m) ==
    /\ m \in net.inflight
    /\ net' = [net EXCEPT
                 !.inflight = (@ \ {m}) \cup
                     (IF m.rest = <<>> THEN {}
                      ELSE {[m EXCEPT !.call = Head(m.rest), !.rest = Tail(m.rest)]}),
                 !.completed = Append(@, [m EXCEPT !.rest = <<>>])]
    /\ UNCHANGED << engineVars, cmVars, dv, pc >>

----------------------------------------------------------------------------
(* partyClient.js: the WebSocket client of the matchmaking room *)

MAX_RECONNECT_ATTEMPTS == 10

\* connect(onMessage): a second call while connecting returns at once
connect(C) ==
    IF C.isConnecting
    THEN C
    ELSE [C EXCEPT !.isConnecting = TRUE,
                   !.sockets = Append(@, "CONNECTING"),
                   !.ws = Len(C.sockets) + 1]

attemptReconnect(C) ==
    IF C.reconnectAttempts >= MAX_RECONNECT_ATTEMPTS
    THEN C
    ELSE [C EXCEPT !.reconnectAttempts = @ + 1, !.timers = @ + 1]

\* ws.close(): an open socket starts the closing handshake, a connecting one is
\* aborted (error event, then close event)
close(readyState) ==
    IF readyState = "OPEN" THEN "CLOSING"
    ELSE IF readyState = "CONNECTING" THEN "ABORTED"
    ELSE readyState

\* connect() called by the server
Connect ==
    /\ Len(pc.sockets) < MaxSockets
    /\ pc' = [connect(pc) EXCEPT !.disconnected = FALSE]
    /\ UNCHANGED << engineVars, cmVars, dv, net >>

\* the setTimeout callback of attemptReconnect: connect(messageHandler)
ReconnectTimer ==
    /\ pc.timers > 0
    /\ Len(pc.sockets) < MaxSockets
    /\ pc' = [connect(pc) EXCEPT !.timers = @ - 1]
    /\ UNCHANGED << engineVars, cmVars, dv, net >>

\* ws.on('open')
OnOpen(s) ==
    /\ pc.sockets[s] = "CONNECTING"
    /\ pc' = [pc EXCEPT !.sockets[s] = "OPEN", !.reconnectAttempts = 0,
                        !.isConnecting = FALSE]
    /\ UNCHANGED << engineVars, cmVars, dv, net >>

\* ws.on('error'): the connection attempt failed; the close event follows
OnError(s) ==
    /\ pc.sockets[s] \in {"CONNECTING", "ABORTED"}
    /\ pc' = [pc EXCEPT !.sockets[s] = "CLOSING", !.isConnecting = FALSE]
    /\ UNCHANGED << engineVars, cmVars, dv, net >>

\* ws.on('close'): after the closing handshake, or when the room drops the
\* connection
OnClose(s) ==
    /\ pc.sockets[s] \in {"OPEN", "CLOSING"}
    /\ pc' = attemptReconnect([pc EXCEPT !.sockets[s] = "CLOSED",
                                         !.isConnecting = FALSE, !.ws = 0])
    /\ UNCHANGED << engineVars, cmVars, dv, net >>

\* disconnect() called by the server
Disconnect ==
    /\ pc' = IF pc.ws # 0
             THEN [pc EXCEPT !.sockets[pc.ws] = close(@), !.ws = 0,
                             !.disconnected = @ \/ pc.sockets[pc.ws] = "OPEN"]
             ELSE pc
    /\ UNCHANGED << engineVars, cmVars, dv, net >>

----------------------------------------------------------------------------
(* Specifications *)

EngineInit ==
    /\ waitingQueue = <<>>
    /\ activePairs = EmptyMap
    /\ userChatIds = EmptyMap
    /\ userStates = EmptyMap
    /\ userSettings = EmptyMap
    /\ statUpdates = <<>>
    /\ reportedUsers = EmptyMap
    /\ reportsInSession = {}
    /\ skippedPartners = EmptyMap
    /\ responses = <<>>
    /\ joinLanguage = [u \in Users |-> Unset]
    /\ joinFilters = EmptyMap
    /\ undoOutcome = NoUndo
    /\ revealRequests = EmptyMap
    /\ sent = <<>>
    /\ pending = {}
    /\ now = TickMs

CanMatchIdle ==
    /\ cmA = NoFilter /\ cmB = NoFilter
    /\ cmResult = FALSE /\ cmSwapped = FALSE /\ cmDone = FALSE
    /\ dv = NoDelivery
    /\ net = NetIdle /\ pc = ClientIdle

\* at most n handlers are suspended in front of handleJoin after the step
PendingWithin(n) == Cardinality(pending') <= n

(* Spec: random search, skip, undo, stop and message forwarding *)

Init == EngineInit /\ CanMatchIdle

Next ==
    \/ \E u \in Users : HandleFind(u) /\ PendingWithin(MaxPending)
    \/ \E p \in pending : JoinResume(p)
    \/ \E u \in Users : HandleNext(u)
    \/ \E u \in Users : HandleUndoSkip(u)
    \/ \E u \in Users : HandleStop(u)
    \/ \E u \in Users, text \in Payloads : HandleTextMessage(u, text)

Spec == Init /\ [][Next]_vars

(* SpecFilter: search by gender; the genders were set in an earlier run and   *)
(* come back from the settings store                                         *)

StoredGender(u) == IF u = 3 THEN "female" ELSE "male"

FilterInit ==
    /\ waitingQueue = <<>>
    /\ activePairs = EmptyMap
    /\ userChatIds = EmptyMap
    /\ userStates = EmptyMap
    /\ userSettings = [u \in Users |-> [typingIndicator |-> TRUE, gender |-> StoredGender(u)]]
    /\ statUpdates = <<>>
    /\ reportedUsers = EmptyMap
    /\ reportsInSession = {}
    /\ skippedPartners = EmptyMap
    /\ responses = <<>>
    /\ joinLanguage = [u \in Users |-> Unset]
    /\ joinFilters = EmptyMap
    /\ undoOutcome = NoUndo
    /\ revealRequests = EmptyMap
    /\ sent = <<>>
    /\ pending = {}
    /\ now = TickMs
    /\ CanMatchIdle

NextFilter ==
    \/ \E u \in Users : HandleGenderSelect(u)
    \/ \E u \in Users, preference \in PreferenceButtons :
          HandlePreferenceChoice(u, preference) /\ PendingWithin(MaxPendingFilter)
    \/ \E p \in pending : JoinResume(p)
    \/ \E u \in Users : HandleStop(u)

SpecFilter == FilterInit /\ [][NextFilter]_vars

(* SpecLanguage: search by language *)

NextLanguage ==
    \/ \E u \in Users : HandleLanguageSelect(u)
    \/ \E u \in Users, language \in LanguageButtons :
          HandleLanguageChoice(u, language) /\ PendingWithin(MaxPendingLanguage)
    \/ \E p \in pending : JoinResume(p)
    \/ \E u \in Users : HandleStop(u)

SpecLanguage == Init /\ [][NextLanguage]_vars

(* SpecConcurrent: several search requests under way at once *)

NextConcurrent ==
    \/ \E u \in Users : HandleFind(u) /\ PendingWithin(MaxPending)
    \/ \E p \in pending : JoinResume(p)
    \/ \E u \in Users : HandleStop(u)

SpecConcurrent == Init /\ [][NextConcurrent]_vars

(* SpecSkip: search by gender with skip and undo by the observed user, whose  *)
(* join filters are kept                                                      *)

Observed == {1}
SkipPreferences == {"female", "any"}

SkipInit ==
    /\ waitingQueue = <<>>
    /\ activePairs = EmptyMap
    /\ userChatIds = EmptyMap
    /\ userStates = EmptyMap
    /\ userSettings = [u \in Users |-> [typingIndicator |-> TRUE, gender |-> StoredGender(u)]]
    /\ statUpdates = <<>>
    /\ reportedUsers = EmptyMap
    /\ reportsInSession = {}
    /\ skippedPartners = EmptyMap
    /\ responses = <<>>
    /\ joinLanguage = [u \in Users |-> Unset]
    /\ joinFilters = [u \in Observed |-> NoFilter]
    /\ undoOutcome = NoUndo
    /\ revealRequests = EmptyMap
    /\ sent = <<>>
    /\ pending = {}
    /\ now = TickMs
    /\ CanMatchIdle

NextSkip ==
    \/ \E u \in Users : HandleGenderSelect(u)
    \/ \E u \in Users, preference \in SkipPreferences :
          HandlePreferenceChoice(u, preference) /\ PendingWithin(MaxPendingSkip)
    \/ \E p \in pending : JoinResume(p)
    \/ \E u \in Observed : HandleNext(u)
    \/ \E u \in Observed : HandleUndoSkip(u)

SpecSkip == SkipInit /\ [][NextSkip]_vars

(* SpecUndo: random search, skip and undo by two of the users while the clock *)
(* advances                                                                   *)

Skippers == {1, 2}

NextUndo ==
    \/ \E u \in Users : HandleFind(u) /\ PendingWithin(MaxPendingUndo)
    \/ \E p \in pending : JoinResume(p)
    \/ \E u \in Skippers : HandleNext(u)
    \/ \E u \in Skippers : HandleUndoSkip(u)
    \/ Tick

SpecUndo == Init /\ [][NextUndo]_vars

(* SpecReport: random search, stop and reports; the observed user is the one *)
(* who is reported, skips and undoes                                         *)

\* the report u is about to confirm is one against an observed user who has
\* fewer than n reports
ReportWithin(u, n) ==
    u \in DOMAIN activePairs =>
      /\ activePairs[u].partnerId \in Observed
      /\ activePairs[u].partnerId \in DOMAIN reportedUsers =>
            reportedUsers[activePairs[u].partnerId].count < n

\* the engine has just started, at one of two times
ReportInit ==
    /\ waitingQueue = <<>>
    /\ activePairs = EmptyMap
    /\ userChatIds = EmptyMap
    /\ userStates = EmptyMap
    /\ userSettings = EmptyMap
    /\ statUpdates = <<>>
    /\ reportedUsers = EmptyMap
    /\ reportsInSession = {}
    /\ skippedPartners = EmptyMap
    /\ responses = <<>>
    /\ joinLanguage = [u \in Users |-> Unset]
    /\ joinFilters = EmptyMap
    /\ undoOutcome = NoUndo
    /\ revealRequests = EmptyMap
    /\ sent = <<>>
    /\ pending = {}
    /\ now \in {TickMs, 2 * TickMs}
    /\ CanMatchIdle

NextReport ==
    \/ \E u \in Users : HandleFind(u) /\ PendingWithin(MaxPendingReport)
    \/ \E p \in pending : JoinResume(p)
    \/ \E u \in Observed : HandleNext(u)
    \/ \E u \in Observed : HandleUndoSkip(u)
    \/ \E u \in Users : HandleStop(u)
    \/ \E u \in Users : ReportWithin(u, MaxReports) /\ HandleReportConfirm(u)

SpecReport == ReportInit /\ [][NextReport]_vars

(* SpecReveal: random search and stop with the reveal buttons *)

NextReveal ==
    \/ \E u \in Users : HandleFind(u) /\ PendingWithin(MaxPendingReveal)
    \/ \E p \in pending : JoinResume(p)
    \/ \E u \in Users : HandleStop(u)
    \/ \E u \in Users : HandleReveal(u)
    \/ \E u \in Users : RevealAccept(u)
    \/ \E u \in Users : RevealDecline(u)

SpecReveal == Init /\ [][NextReveal]_vars

(* SpecTyping: random search and stop, the typing switch of the settings and *)
(* the typing notice that goes with every text                              *)

NextTyping ==
    \/ \E u \in Users : HandleFind(u) /\ PendingWithin(MaxPendingTyping)
    \/ \E p \in pending : JoinResume(p)
    \/ \E u \in Users : HandleStop(u)
    \/ \E u \in Users : ToggleTyping(u)
    \/ \E u \in Users : HandleTypingFromUser(u)

SpecTyping == Init /\ [][NextTyping]_vars

(* SpecRevealGuard: random search, reveal requests and declines while the    *)
(* clock advances                                                            *)

NextRevealGuard ==
    \/ \E u \in Users : HandleFind(u) /\ PendingWithin(MaxPendingGuard)
    \/ \E p \in pending : JoinResume(p)
    \/ \E u \in Users : HandleReveal(u)
    \/ \E u \in Users : RevealDecline(u)
    \/ Tick

SpecRevealGuard == Init /\ [][NextRevealGuard]_vars

(* SpecOrder: random search and texts of the observed user, with the Bot API *)
(* requests completing in any order                                        *)

NextOrder ==
    \/ \E u \in Users : HandleFind(u) /\ PendingWithin(MaxPendingOrder)
    \/ \E p \in pending : JoinResume(p)
    \/ \E u \in Observed, text \in Payloads : WebhookText(u, text)
    \/ \E m \in net.inflight : SendCompletes(m)

SpecOrder == Init /\ [][NextOrder]_vars

(* SpecClient: the server connects and disconnects while sockets open, fail *)
(* and close                                                                *)

NextClient ==
    \/ Connect
    \/ ReconnectTimer
    \/ \E s \in 1..Len(pc.sockets) : OnOpen(s)
    \/ \E s \in 1..Len(pc.sockets) : OnError(s)
    \/ \E s \in 1..Len(pc.sockets) : OnClose(s)
    \/ Disconnect

SpecClient == Init /\ [][NextClient]_vars

(* SpecRoom: the requests the server sends to the matchmaking room *)

NextRoom ==
    \/ \E u \in Users : RoomJoin(u)
    \/ \E u \in Users : RoomLeave(u)
    \/ \E u \in Users : RoomNext(u)
    \/ \E u \in Users, text \in Payloads : RoomMessage(u, text)

SpecRoom == Init /\ [][NextRoom]_vars

(* SpecEngine: the operations of the engine in any order *)

NextEngine ==
    \/ \E u \in Users : EngineJoin(u)
    \/ \E u \in Users : EngineLeave(u)
    \/ \E u \in Users : EngineNext(u)
    \/ \E u \in Users, text \in Payloads : EngineMessage(u, text)
    \/ \E u \in Users : EngineTyping(u)

SpecEngine == Init /\ [][NextEngine]_vars

(* SpecDeliver: one payload of every kind, forwarded to the same recipient by *)
(* two different senders                                                    *)

MediaTypes == { Unset, "text", "photo", "video", "sticker", "voice", "animation",
                "video_note", "document" }
MessageData == [ text : {Unset, "hello"}, mediaType : MediaTypes,
                 fileId : {Unset, "file"}, caption : {Unset, "caption"} ]

DeliverInit ==
    /\ EngineInit
    /\ cmA = NoFilter /\ cmB = NoFilter
    /\ cmResult = FALSE /\ cmSwapped = FALSE /\ cmDone = FALSE
    /\ \E messageData \in MessageData, a \in Users, b \in Users, r \in Users :
          /\ a # b /\ r # a /\ r # b
          /\ dv = [ done |-> FALSE, messageData |-> messageData, senderA |-> a,
                    senderB |-> b, recipient |-> r, outA |-> <<>>, outB |-> <<>> ]
    /\ net = NetIdle /\ pc = ClientIdle

SpecDeliver == DeliverInit /\ [][EvalDeliver]_vars

(* SpecCanMatch: canMatch on every combination of gender and preference *)

FilterValues == {Unset, "male", "female", "any"}
Filters == [gender : FilterValues, preference : FilterValues]

CanMatchInit ==
    /\ EngineInit
    /\ cmA \in Filters /\ cmB \in Filters
    /\ cmResult = FALSE /\ cmSwapped = FALSE /\ cmDone = FALSE
    /\ dv = NoDelivery
    /\ net = NetIdle /\ pc = ClientIdle

EvalCanMatch ==
    /\ ~cmDone
    /\ cmResult' = canMatch(cmA, cmB)
    /\ cmSwapped' = canMatch(cmB, cmA)
    /\ cmDone' = TRUE
    /\ UNCHANGED << cmA, cmB, engineVars, dv, net, pc >>

SpecCanMatch == CanMatchInit /\ [][EvalCanMatch]_vars

----------------------------------------------------------------------------
(* Properties *)

PartnerOf(u) == activePairs[u].partnerId

Queued(u) == \E i \in 1..Len(waitingQueue) : waitingQueue[i].userId = u

ResponseTypes == [i \in 1..Len(responses) |-> responses[i].type]

\* C1 -- Registry symmetry: the partner named by a user's Registry entry has a
\* Registry entry of its own, and that entry names the user.
RegistrySymmetry ==
    \A u \in DOMAIN activePairs :
        /\ PartnerOf(u) \in DOMAIN activePairs
        /\ PartnerOf(PartnerOf(u)) = u

\* C2 -- At most one partner per user: no user is named as partner by two
\* different Registry entries.
OnePartnerPerUser ==
    \A x \in DOMAIN activePairs : \A y \in DOMAIN activePairs :
        x # y => PartnerOf(x) # PartnerOf(y)

\* C3 -- Mutual exclusion: no user has a Waiting Queue entry and a Registry
\* entry at the same time.
MutualExclusion ==
    \A u \in Users : ~(Queued(u) /\ u \in DOMAIN activePairs)

\* an undo has just re-created a pair (two chat counters, nothing emitted):
\* both users are in the Registry and neither is left in the queue
ReconnectedOutOfQueue ==
    /\ responses = <<>>
    /\ Len(statUpdates) = 2
    /\ \A i \in 1..2 : statUpdates[i].field = "chats"
    /\ statUpdates[1].userId \in DOMAIN activePairs
    /\ PartnerOf(statUpdates[1].userId) = statUpdates[2].userId
    /\ ~Queued(statUpdates[1].userId)
    /\ ~Queued(statUpdates[2].userId)

\* C4 -- No self-pairing: no Registry entry names its own key as the partner,
\* and no matched event names one user on both sides.
NoSelfPairing ==
    /\ \A u \in DOMAIN activePairs : PartnerOf(u) # u
    /\ \A i \in 1..Len(responses) :
          responses[i].type = "matched" => responses[i].userId # responses[i].partnerId

\* a skip whose rejoin found a partner at once
SkipRematched ==
    /\ ResponseTypes = << "partner_left", "skipped", "matched" >>
    /\ responses[3].userId \in DOMAIN activePairs
    /\ PartnerOf(responses[3].userId) = responses[3].partnerId

\* C5 -- Queue uniqueness: every userId appears at most once in the Waiting Queue.
QueueUniqueness ==
    \A i \in 1..Len(waitingQueue) : \A j \in 1..Len(waitingQueue) :
        i # j => waitingQueue[i].userId # waitingQueue[j].userId

\* a queued user asked to join again while others were waiting too
RejoinWhileQueued ==
    /\ ResponseTypes = << "already_waiting" >>
    /\ Queued(responses[1].userId)
    /\ Len(waitingQueue) >= 2

\* C6 -- Atomic matching: a queued entry is matched by at most one joiner, and
\* once matched it is in the queue no more, however the joins interleave.
AtomicMatching ==
    \A e \in Users :
        LET joiners == {x \in DOMAIN activePairs : PartnerOf(x) = e}
        IN /\ Cardinality(joiners) <= 1
           /\ joiners # {} => ~Queued(e)

\* one join matched the queued user while another user's join was under way
MatchedWhileOtherJoinPending ==
    /\ ResponseTypes = << "matched" >>
    /\ \E p \in pending :
          /\ p.userId # responses[1].userId
          /\ p.userId # responses[1].partnerId
          /\ p.userId \notin DOMAIN activePairs

\* C7 -- FIFO fairness: a join that finds compatible queued entries pairs the
\* joiner with the oldest of them and leaves the order of the others unchanged.
FifoStep(p) ==
    LET userData == [userId |-> p.userId, chatId |-> p.chatId,
                     gender |-> p.options.gender, preference |-> p.options.preference]
        compatible == {i \in 1..Len(waitingQueue) :
                          /\ waitingQueue[i].userId # p.userId
                          /\ canMatch(userData, waitingQueue[i])}
    IN (compatible # {} /\ p.userId \notin DOMAIN activePairs /\ ~Queued(p.userId)) =>
          \E i \in compatible :
              /\ \A j \in compatible : i <= j
              /\ p.userId \in DOMAIN activePairs'
              /\ activePairs'[p.userId].partnerId = waitingQueue[i].userId
              /\ Len(waitingQueue') = Len(waitingQueue) - 1
              /\ \A k \in 1..Len(waitingQueue') :
                    waitingQueue'[k] = IF k < i THEN waitingQueue[k] ELSE waitingQueue[k + 1]

FifoFairness == [][\A p \in pending : JoinResume(p) => FifoStep(p)]_vars

\* a join was matched and an entry compatible with the joiner is still queued
MatchedAheadOfCompatible ==
    /\ ResponseTypes = << "matched" >>
    /\ LET u == responses[1].userId
       IN /\ u \in DOMAIN userStates
          /\ \E i \in 1..Len(waitingQueue) : canMatch(userStates[u], waitingQueue[i])

\* C8 -- Compatibility symmetry: canMatch(a, b) = canMatch(b, a) for every
\* combination of gender and preference on both sides.
CompatibilitySymmetry == cmDone => cmResult = cmSwapped

\* two different filters, one with a specific and one with no specific preference
SymmetryOnUnequalSides ==
    /\ cmDone /\ cmResult
    /\ cmA.gender # Unset /\ cmB.gender # Unset
    /\ cmA.preference \in {"male", "female"}
    /\ cmB.preference \in {Unset, "any"}

\* C9 -- Compatibility rules as claimed: true if either side has no gender;
\* else, a's preference unset/"any": true exactly when b's preference is
\* unset/"any" or equals a's gender; else true exactly when b's preference
\* equals a's gender and a's preference equals b's gender.
NoSpecificPreference(user) == user.preference \in {Unset, "any"}

ClaimedCompatible(a, b) ==
    IF a.gender = Unset \/ b.gender = Unset THEN TRUE
    ELSE IF NoSpecificPreference(a)
         THEN NoSpecificPreference(b) \/ b.preference = a.gender
         ELSE b.preference = a.gender /\ a.preference = b.gender

CompatibilityRulesAsClaimed == cmDone => cmResult = ClaimedCompatible(cmA, cmB)

\* C9, amended -- the last rule reads: else (a has a specific preference) true
\* exactly when a's preference equals b's gender and b's preference is
\* unset/"any" or equals a's gender.
AmendedCompatible(a, b) ==
    IF a.gender = Unset \/ b.gender = Unset THEN TRUE
    ELSE IF NoSpecificPreference(a)
         THEN NoSpecificPreference(b) \/ b.preference = a.gender
         ELSE a.preference = b.gender /\ (NoSpecificPreference(b) \/ b.preference = a.gender)

CompatibilityRules == cmDone => cmResult = AmendedCompatible(cmA, cmB)

\* a has a specific preference that b's gender meets, b has none: compatible
SpecificMeetsOpen ==
    /\ cmDone /\ cmResult
    /\ cmA.gender = "male" /\ cmA.preference = "female"
    /\ cmB.gender = "female" /\ cmB.preference = "any"

\* C10 -- Language matching: users paired by join declared the same language,
\* or one of them declared "any".
LanguageMatching ==
    \A u \in DOMAIN activePairs :
        \/ joinLanguage[u] = joinLanguage[PartnerOf(u)]
        \/ joinLanguage[u] = "any"
        \/ joinLanguage[PartnerOf(u)] = "any"

----------------------------------------------------------------------------
(* Properties of the single operations *)

QueuedIn(queue, u) == \E i \in 1..Len(queue) : queue[i].userId = u

\* the state getUserState reports for u, given the session map
SessionIn(states, u) == IF u \in DOMAIN states THEN states[u].state ELSE USER_STATES.IDLE

TypesOf(msgs) == [i \in 1..Len(msgs) |-> msgs[i].type]

MatchedEvents == {i \in 1..Len(responses) : responses[i].type = "matched"}

\* the queue entry a join request builds for its user
UserDataOf(p) == [userId |-> p.userId, chatId |-> p.chatId,
                  gender |-> p.options.gender, preference |-> p.options.preference]

\* the positions of the queued entries compatible with a join request
CompatibleWith(p) == {i \in 1..Len(waitingQueue) :
                         /\ waitingQueue[i].userId # p.userId
                         /\ canMatch(UserDataOf(p), waitingQueue[i])}

\* the request comes from a user with no pair and no queue entry
Accepted(p) == p.userId \notin DOMAIN activePairs /\ ~Queued(p.userId)

\* the calls that add `amount` to chat counters in the step's statistics writes
ChatIncrements(u) == {i \in 1..Len(statUpdates') :
                         /\ statUpdates'[i].userId = u
                         /\ statUpdates'[i].field = "chats"
                         /\ statUpdates'[i].amount = 1}

\* C11 -- Match step of join: wherever a join has just paired two users, exactly
\* one matched event was emitted, it names both users, no waiting event was
\* emitted, neither user is in the queue and the Registry holds the pair in
\* both directions with each side's delivery address.
MatchStepEvents ==
    \A i \in MatchedEvents :
        LET m == responses[i]
        IN /\ Cardinality(MatchedEvents) = 1
           /\ \A j \in 1..Len(responses) : responses[j].type # "waiting"
           /\ ~Queued(m.userId) /\ ~Queued(m.partnerId)
           /\ m.userId \in DOMAIN activePairs /\ m.partnerId \in DOMAIN activePairs
           /\ activePairs[m.userId] = [partnerId |-> m.partnerId,
                                       partnerChatId |-> m.partnerChatId]
           /\ activePairs[m.partnerId] = [partnerId |-> m.userId,
                                          partnerChatId |-> m.chatId]

\* C11, the join request of the in-memory engine -- a join that finds a compatible
\* queued entry E removes E, pairs the two in both directions, sets both sessions
\* to in_chat, adds one to both chat counters and emits one matched event.
MatchStep(p) ==
    (Accepted(p) /\ CompatibleWith(p) # {}) =>
        \E i \in CompatibleWith(p) :
            LET E == waitingQueue[i]
            IN /\ ~QueuedIn(waitingQueue', E.userId)
               /\ ~QueuedIn(waitingQueue', p.userId)
               /\ activePairs' = createPair(activePairs, p.userId, p.chatId,
                                            E.userId, E.chatId)
               /\ SessionIn(userStates', p.userId) = USER_STATES.IN_CHAT
               /\ SessionIn(userStates', E.userId) = USER_STATES.IN_CHAT
               /\ Cardinality(ChatIncrements(p.userId)) = 1
               /\ Cardinality(ChatIncrements(E.userId)) = 1
               /\ responses' = << [Msg("matched", p.userId, p.chatId) EXCEPT
                                     !.partnerId = E.userId,
                                     !.partnerChatId = E.chatId] >>

MatchStepOfJoin == [][\A p \in pending : JoinResume(p) => MatchStep(p)]_vars

\* C12 -- No-match step of join: a join by a user with no pair and no queue
\* entry that finds no compatible queued entry appends one entry carrying the
\* user's filters at the tail of the queue, sets the session to searching,
\* leaves the Registry unchanged and emits exactly one waiting event.
NoMatchStep(p) ==
    (Accepted(p) /\ CompatibleWith(p) = {}) =>
        /\ waitingQueue' = Append(waitingQueue, UserDataOf(p))
        /\ SessionIn(userStates', p.userId) = USER_STATES.SEARCHING
        /\ activePairs' = activePairs
        /\ responses' = << [Msg("waiting", p.userId, p.chatId) EXCEPT
                              !.gender = p.options.gender,
                              !.preference = p.options.preference] >>

NoMatchStepOfJoin == [][\A p \in pending : JoinResume(p) => NoMatchStep(p)]_vars

\* a join found only incompatible entries and went to the tail behind them
QueuedBehindIncompatible ==
    /\ ResponseTypes = << "waiting" >>
    /\ Len(waitingQueue) >= 2
    /\ waitingQueue[Len(waitingQueue)].userId = responses[1].userId
    /\ waitingQueue[Len(waitingQueue)].preference = responses[1].preference
    /\ ~canMatch(waitingQueue[Len(waitingQueue)], waitingQueue[1])

\* C13 -- Rejected join: a join by a paired user emits exactly one
\* already_chatting event, a join by a queued user exactly one already_waiting
\* event; queue, Registry and all sessions stay as they were.
RejectedJoin(p) ==
    /\ p.userId \in DOMAIN activePairs =>
          /\ responses' = << Msg("already_chatting", p.userId, p.chatId) >>
          /\ UNCHANGED << waitingQueue, activePairs, userStates >>
    /\ (p.userId \notin DOMAIN activePairs /\ Queued(p.userId)) =>
          /\ responses' = << Msg("already_waiting", p.userId, p.chatId) >>
          /\ UNCHANGED << waitingQueue, activePairs, userStates >>

RejectedJoinChangesNothing ==
    [][\A p \in pending : JoinResume(p) => RejectedJoin(p)]_vars

\* a paired user asked to join again
RejoinWhileChatting ==
    /\ ResponseTypes = << "already_chatting" >>
    /\ responses[1].userId \in DOMAIN activePairs
    /\ SessionIn(userStates, responses[1].userId) = USER_STATES.IN_CHAT

\* C14 -- Leave of a paired user: after A, paired with B, leaves, neither has
\* a Registry entry, both sessions are idle, exactly one partner_left event
\* went to B, and no other user's Registry or queue entry has changed.
OthersIn(queue, u) == SelectSeq(queue, LAMBDA e : e.userId # u)

LeaveOfPaired(A) ==
        LET B == activePairs[A].partnerId
        IN /\ A \notin DOMAIN activePairs'
           /\ B \notin DOMAIN activePairs'
           /\ SessionIn(userStates', A) = USER_STATES.IDLE
           /\ SessionIn(userStates', B) = USER_STATES.IDLE
           /\ responses' = << Msg("partner_left", B, activePairs[A].partnerChatId) >>
           /\ \A w \in Users \ {A, B} :
                 /\ w \in DOMAIN activePairs <=> w \in DOMAIN activePairs'
                 /\ w \in DOMAIN activePairs => activePairs'[w] = activePairs[w]
           /\ OthersIn(waitingQueue', A) = OthersIn(waitingQueue, A)

LeaveBreaksPair ==
    [][\A u \in DOMAIN activePairs : HandleStop(u) => LeaveOfPaired(u)]_vars

\* a paired user left while a third user was waiting
LeftWhileOtherWaits ==
    /\ ResponseTypes = << "partner_left" >>
    /\ responses[1].userId \notin DOMAIN activePairs
    /\ Len(waitingQueue) = 1
    /\ waitingQueue[1].userId # responses[1].userId

\* C15 -- Leave always resets: after a stop request by u, paired, queued or
\* neither, u's session is idle, u has no queue entry and no Skip Record.
LeaveReset(u) ==
    /\ SessionIn(userStates', u) = USER_STATES.IDLE
    /\ ~QueuedIn(waitingQueue', u)
    /\ u \notin DOMAIN skippedPartners'

LeaveAlwaysResets == [][\A u \in Users : HandleStop(u) => LeaveReset(u)]_vars

\* C16 -- Skip keeps filters: whenever a paired user skips, the rejoin is made
\* with the gender and preference of the user's last join.
SkipKeepsFilters ==
    [][\A u \in DOMAIN joinFilters :
          (u \in DOMAIN activePairs /\ HandleNext(u)) => joinFilters'[u] = joinFilters[u]]_vars

\* C17 -- Skip by a queued-only user: the queue entry is removed, the user is
\* neither re-added nor paired, exactly one not_in_chat event goes to the user
\* and no Skip Record is created.
QueuedOnly(u) == Queued(u) /\ u \notin DOMAIN activePairs

QueuedSkip(u) ==
    /\ ~QueuedIn(waitingQueue', u)
    /\ u \notin DOMAIN activePairs'
    /\ TypesOf(responses') = << "not_in_chat" >>
    /\ responses'[1].userId = u
    /\ skippedPartners' = skippedPartners

QueuedSkipDegrades ==
    [][\A u \in Users :
          (QueuedOnly(u) /\ (HandleNext(u) \/ RoomNext(u))) => QueuedSkip(u)]_vars

\* C18 -- Skip of a paired user: after A, paired with B, skips, the Skip Record
\* of A holds B, B's address and the time of the skip; exactly one partner_left
\* went to B and one skipped to A, both before the matched or waiting event of
\* A's rejoin.
SkipOfPaired(A) ==
    LET B == activePairs[A].partnerId
        BChat == activePairs[A].partnerChatId
    IN /\ A \in DOMAIN skippedPartners'
       /\ skippedPartners'[A] = [partnerId |-> B, partnerChatId |-> BChat, timestamp |-> now]
       /\ Len(responses') = 3
       /\ responses'[1] = Msg("partner_left", B, BChat)
       /\ responses'[2] = Msg("skipped", A, ChatOf(A))
       /\ responses'[3].type \in {"matched", "waiting"}
       /\ responses'[3].userId = A

SkipRecordsAndNotifies ==
    [][\A u \in DOMAIN activePairs : HandleNext(u) => SkipOfPaired(u)]_vars

\* a skip at a later time whose rejoin found nobody
SkippedIntoQueue ==
    /\ ResponseTypes = << "partner_left", "skipped", "waiting" >>
    /\ now > TickMs
    /\ responses[2].userId \in DOMAIN skippedPartners
    /\ skippedPartners[responses[2].userId].partnerId = responses[1].userId
    /\ skippedPartners[responses[2].userId].timestamp = now

\* C19 -- Undo window: an undo at most 10 seconds after the skip, with the
\* ex-partner unpaired, re-creates the pair; a later one fails as expired,
\* deletes the Skip Record and changes neither queue nor Registry; without a
\* record an undo fails, and only a skip creates a record.
UndoInWindow(A) ==
    /\ (A \in DOMAIN skippedPartners /\ skipAge(Cur, A) <= UNDO_TIMEOUT
            /\ skippedPartners[A].partnerId \notin DOMAIN activePairs) =>
          LET B == skippedPartners[A].partnerId
          IN /\ undoOutcome'.reply = "reconnected"
             /\ A \in DOMAIN activePairs' /\ activePairs'[A].partnerId = B
             /\ B \in DOMAIN activePairs' /\ activePairs'[B].partnerId = A
    /\ (A \in DOMAIN skippedPartners /\ skipAge(Cur, A) > UNDO_TIMEOUT) =>
          /\ undoOutcome'.reply = "expired"
          /\ A \notin DOMAIN skippedPartners'
          /\ UNCHANGED << waitingQueue, activePairs >>
    /\ A \notin DOMAIN skippedPartners =>
          /\ undoOutcome'.reply = "expired"
          /\ UNCHANGED << waitingQueue, activePairs, skippedPartners >>

UndoWindow ==
    [][\A u \in Users :
          /\ HandleUndoSkip(u) => UndoInWindow(u)
          /\ (u \notin DOMAIN skippedPartners /\ u \in DOMAIN skippedPartners') =>
                (u \in DOMAIN activePairs /\ HandleNext(u))]_vars

\* an undo exactly 10 seconds after the skip re-created the pair
UndoAtLimit ==
    /\ undoOutcome = [reply |-> "reconnected", age |-> UNDO_TIMEOUT]
    /\ \E u \in DOMAIN activePairs :
          /\ PartnerOf(u) \in DOMAIN activePairs
          /\ PartnerOf(PartnerOf(u)) = u
          /\ userStates[u].chatStartTime = now
          /\ userStates[PartnerOf(u)].chatStartTime = now

\* C20 -- Undo is consumed: an undo with a valid record and an unpaired
\* ex-partner re-pairs the two whatever their filters, takes both out of the
\* queue and removes the Skip Record; an undo without a record fails as
\* expired and changes no state.
UndoOnce(A) ==
    /\ (A \in DOMAIN skippedPartners /\ ~skipExpired(Cur, A)
            /\ skippedPartners[A].partnerId \notin DOMAIN activePairs) =>
          LET B == skippedPartners[A].partnerId
          IN /\ undoOutcome'.reply = "reconnected"
             /\ activePairs' = createPair(activePairs, A, ChatOf(A), B,
                                          skippedPartners[A].partnerChatId)
             /\ ~QueuedIn(waitingQueue', A)
             /\ ~QueuedIn(waitingQueue', B)
             /\ A \notin DOMAIN skippedPartners'
    /\ A \notin DOMAIN skippedPartners =>
          /\ undoOutcome'.reply = "expired"
          /\ UNCHANGED << waitingQueue, activePairs, userChatIds, userStates,
                          userSettings, reportedUsers, reportsInSession,
                          skippedPartners >>

UndoConsumed == [][\A u \in Users : HandleUndoSkip(u) => UndoOnce(u)]_vars

\* an undo re-paired two users whose filters do not match each other
ReconnectedIncompatible ==
    /\ undoOutcome.reply = "reconnected"
    /\ \E A \in DOMAIN joinFilters :
          /\ A \in DOMAIN activePairs
          /\ A \notin DOMAIN skippedPartners
          /\ PartnerOf(A) \in DOMAIN userStates
          /\ joinFilters[A].gender # Unset
          /\ userStates[PartnerOf(A)].gender # Unset
          /\ ~canMatch(joinFilters[A], userStates[PartnerOf(A)])

\* C21 -- Undo with a busy partner: when the ex-partner named in a valid Skip
\* Record already has a Registry entry, the undo answers partner_busy and
\* leaves the waiting queue, the Registry and every session state unchanged.
UndoOfBusy(A) ==
    (A \in DOMAIN skippedPartners /\ ~skipExpired(Cur, A)
        /\ skippedPartners[A].partnerId \in DOMAIN activePairs) =>
      /\ undoOutcome'.reply = "partner_busy"
      /\ UNCHANGED << waitingQueue, activePairs, userStates >>

UndoBusyPartner == [][\A u \in Skippers : HandleUndoSkip(u) => UndoOfBusy(u)]_vars

\* an undo was refused because the ex-partner chats with a third user
RefusedForBusyPartner ==
    /\ undoOutcome.reply = "partner_busy"
    /\ \E u \in DOMAIN activePairs :
          PartnerOf(u) \in DOMAIN activePairs /\ PartnerOf(PartnerOf(u)) = u

\* C22 -- forwardMessage without a pair: for a user without a Registry entry
\* (never joined, queued, or after the chat ended or the user left) the
\* operation emits exactly one not_in_chat event addressed to that user, no
\* forward_message, and changes no counter.
ForwardWithoutPair(u) ==
    u \notin DOMAIN activePairs =>
      /\ Len(responses') = 1
      /\ responses'[1].type = "not_in_chat"
      /\ responses'[1].userId = u
      /\ responses'[1].chatId = ChatOf(u)
      /\ statUpdates' = <<>>

NotInChatSignalled ==
    [][\A u \in Users, text \in Payloads :
          EngineMessage(u, text) => ForwardWithoutPair(u)]_vars

\* C23 -- forwardMessage with a pair: exactly one forward_message goes to the
\* user and address stored in the sender's Registry entry, with the payload
\* and fromUserId = sender; only the sender's message counter grows, by one;
\* queue, Registry and session states stay as they were; and the recipient
\* is a user whose own Registry partner is the sender.
ForwardWithPair(u, text) ==
    u \in DOMAIN activePairs =>
      /\ responses' = << [Msg("forward_message", activePairs[u].partnerId,
                               activePairs[u].partnerChatId) EXCEPT
                             !.payload = text, !.fromUserId = u] >>
      /\ statUpdates' = << [userId |-> u, field |-> "messages", amount |-> 1] >>
      /\ UNCHANGED << waitingQueue, activePairs, userStates >>
      /\ activePairs[u].partnerId \in DOMAIN activePairs
      /\ activePairs[activePairs[u].partnerId].partnerId = u

ForwardReachesPartner ==
    [][\A u \in Users, text \in Payloads :
          HandleTextMessage(u, text) => ForwardWithPair(u, text)]_vars

\* C29 -- Dispatcher call bound, as stated: every engine operation (join,
\* leave, skip, forwardMessage, typing) invokes the response dispatcher at
\* most twice.
DispatcherAtMostTwice == Len(responses) <= 2

\* C29 -- Dispatcher call bound, as the engine keeps it: an operation invokes
\* the response dispatcher at most three times; three times exactly for the
\* skip of a paired user (partner_left, skipped, then the matched or waiting
\* of its rejoin) and at most once for every other operation.
DispatcherBound ==
    \/ Len(responses) <= 1
    \/ /\ Len(responses) = 3
       /\ responses[1].type = "partner_left"
       /\ responses[2].type = "skipped"
       /\ responses[3].type \in {"matched", "waiting"}
       /\ responses[2].userId = responses[3].userId
       /\ responses[1].userId # responses[2].userId

\* the skip of a paired user called the dispatcher three times
SkipDispatchedThree ==
    /\ ResponseTypes = << "partner_left", "skipped", "matched" >>
    /\ responses[2].userId \in DOMAIN activePairs

\* C28 -- Anonymity of forwarding: what is delivered for a forward_message
\* depends on the payload only (text or media type, file id, caption): two
\* runs that differ only in the sender's id and address deliver the same
\* calls, and neither the sender's id nor its address is part of them.
ForwardingAnonymous ==
    dv.done =>
      /\ dv.outA = dv.outB
      /\ \A i \in 1..Len(dv.outA) :
            /\ dv.outA[i].chat_id = ChatOf(dv.recipient)
            /\ dv.outA[i].text \in {Unset, dv.messageData.text}
            /\ dv.outA[i].media \in {Unset, dv.messageData.fileId}
            /\ dv.outA[i].caption \in {Unset, dv.messageData.caption}
            /\ dv.outA[i].keyboard = Unset

\* a captioned photo was delivered for two different senders
PhotoDeliveredForBoth ==
    /\ dv.done
    /\ dv.senderA # dv.senderB
    /\ Len(dv.outA) = 1 /\ Len(dv.outB) = 1
    /\ dv.outA[1].method = "sendPhoto"
    /\ dv.outA[1].caption = "caption"

\* C24 -- Ban thresholds: counting the accepted reports against a user, the
\* user is never banned while the count is below 3; the report that brings
\* the count to 3 sets a ban of 30 minutes from that report; the report that
\* brings it to 5, and every later one, sets a ban of 24 hours from that
\* report.
ReportCount(x) == IF x \in DOMAIN reportedUsers THEN reportedUsers[x].count ELSE 0

AcceptedReport(r) ==
    (r \in DOMAIN activePairs /\ << r, activePairs[r].partnerId >> \notin reportsInSession) =>
      LET x == activePairs[r].partnerId
          count == ReportCount(x) + 1
      IN /\ reportedUsers'[x].count = count
         /\ reportedUsers'[x].lastReportTime = now
         /\ count = 3 => reportedUsers'[x].banUntil = now + 30 * 60 * 1000
         /\ count >= 5 => reportedUsers'[x].banUntil = now + 24 * 60 * 60 * 1000

BanThresholds ==
    [][/\ \A x \in DOMAIN reportedUsers' :
             reportedUsers'[x].count < 3 => reportedUsers'[x].banUntil = 0
       /\ \A r \in Users : HandleReportConfirm(r) => AcceptedReport(r)]_vars

\* a sixth report renewed the 24 hour ban of a user who went on chatting
SixthReportBans ==
    \E x \in DOMAIN reportedUsers :
       /\ reportedUsers[x].count = 6
       /\ reportedUsers[x].banUntil = reportedUsers[x].lastReportTime + 86400000
       /\ x \in DOMAIN activePairs
       /\ << PartnerOf(x), x >> \in reportsInSession

\* C25 -- Duplicate report: a second report of the same user by the same
\* reporter within one chat session is rejected as already reported and
\* leaves the reported user's count, lastReportTime and banUntil unchanged.
SecondReport(r) ==
    (r \in DOMAIN activePairs /\ << r, activePairs[r].partnerId >> \in reportsInSession) =>
      /\ sent' = << sendMessageWithKeyboard(ChatOf(r), "alreadyReported",
                                             "inChatKeyboard") >>
      /\ UNCHANGED << reportedUsers, reportsInSession, activePairs >>

DuplicateReport == [][\A r \in Users : HandleReportConfirm(r) => SecondReport(r)]_vars

\* a reporter was told that the partner is already reported
DuplicateRejected ==
    \E r \in DOMAIN activePairs :
       /\ sent = << sendMessageWithKeyboard(ChatOf(r), "alreadyReported",
                                            "inChatKeyboard") >>
       /\ << r, PartnerOf(r) >> \in reportsInSession
       /\ reportedUsers[PartnerOf(r)].count = 1

\* C30 -- Report de-duplication is scoped to the chat session: the entries
\* (A, B) and (B, A) are removed when the pair of A and B ends, so in every
\* state where A and B are not paired with each other no such entry exists.
ReportsWithinSession ==
    \A e \in reportsInSession :
       /\ e[1] \in DOMAIN activePairs /\ activePairs[e[1]].partnerId = e[2]
       /\ e[2] \in DOMAIN activePairs /\ activePairs[e[2]].partnerId = e[1]

\* C26 -- Reveal mutuality: while A and B are paired and a reveal request of
\* A is stored, a reveal request of B is a mutual acceptance: in that step
\* both are sent the reveal result and no request of the pair stays stored.
RevealOfPartner(B) ==
    LET A == activePairs[B].partnerId
    IN (getRevealRequest(Cur, A, B) # NoRequest
          /\ getRevealRequest(Cur, A, B).requesterId = A) =>
         /\ sent' = << sendMessageWithKeyboard(ChatOf(B), "revealAccepted",
                                                "inChatKeyboard"),
                       sendMessageWithKeyboard(activePairs[B].partnerChatId,
                                               "revealAccepted", "inChatKeyboard") >>
         /\ activePairs[B].partnerChatId = ChatOf(A)
         /\ << A, B >> \notin DOMAIN revealRequests'
         /\ << B, A >> \notin DOMAIN revealRequests'

DeclineOf(B) ==
    LET A == activePairs[B].partnerId
    IN /\ sent' = << answerCallbackQuery("revealDeclined"),
                     sendMessage(activePairs[B].partnerChatId, "revealDeclined"),
                     sendMessage(ChatOf(B), "youDeclined") >>
       /\ activePairs[B].partnerChatId = ChatOf(A)
       /\ << A, B >> \notin DOMAIN revealRequests'
       /\ << B, A >> \notin DOMAIN revealRequests'

\* the handler before this one was the decline of B
DeclinedBy(B) ==
    /\ Len(sent) = 3
    /\ sent[1] = answerCallbackQuery("revealDeclined")
    /\ sent[3] = sendMessage(ChatOf(B), "youDeclined")

RequestAfterDecline(A) ==
    DeclinedBy(activePairs[A].partnerId) =>
      LET B == activePairs[A].partnerId
      IN /\ sent' = << sendMessage(ChatOf(A), "revealSent"),
                       sendMessageWithKeyboard(ChatOf(B), "revealReceived",
                                               "revealConfirmKeyboard") >>
         /\ getPairKey(A, B) \in DOMAIN revealRequests'
         /\ revealRequests'[getPairKey(A, B)].requesterId = A

RevealDeclined ==
    [][\A u \in DOMAIN activePairs :
          /\ RevealDecline(u) => DeclineOf(u)
          /\ HandleReveal(u) => RequestAfterDecline(u)]_vars

\* a user declined and the partner was told so; no request is stored for them
DeclinedAndCleared ==
    \E B \in DOMAIN activePairs :
       /\ DeclinedBy(B)
       /\ sent[2] = sendMessage(ChatOf(PartnerOf(B)), "revealDeclined")
       /\ PartnerOf(B) \in DOMAIN activePairs
       /\ PartnerOf(PartnerOf(B)) = B
       /\ getPairKey(B, PartnerOf(B)) \notin DOMAIN revealRequests

\* C31 -- Typing indicator gating: a typing event goes to user P only if P
\* is the Registry partner of the user who typed and P's typingIndicator
\* setting is on; typing by a user without a pair emits nothing and changes
\* no state.
TypingOf(u) ==
    /\ u \notin DOMAIN activePairs =>
          /\ responses' = <<>>
          /\ UNCHANGED << waitingQueue, activePairs, userChatIds, userStates,
                          userSettings, reportedUsers, reportsInSession,
                          skippedPartners, revealRequests >>
    /\ \A i \in 1..Len(responses') :
          responses'[i].type = "typing" =>
            /\ u \in DOMAIN activePairs
            /\ responses'[i].userId = activePairs[u].partnerId
            /\ responses'[i].chatId = activePairs[u].partnerChatId
            /\ responses'[i].userId \in DOMAIN userSettings =>
                  userSettings[responses'[i].userId].typingIndicator

TypingGated ==
    [][/\ \A u \in Users : HandleTypingFromUser(u) => TypingOf(u)
       /\ (\E i \in 1..Len(responses') : responses'[i].type = "typing") =>
             \E u \in Users : HandleTypingFromUser(u)]_vars

\* a typing event reached a partner who switched the indicator off and on again
TypingDelivered ==
    /\ Len(responses) = 1
    /\ responses[1].type = "typing"
    /\ responses[1].userId \in DOMAIN userSettings
    /\ userSettings[responses[1].userId].typingIndicator
    /\ responses[1].fromUserId \in DOMAIN userSettings
    /\ ~userSettings[responses[1].fromUserId].typingIndicator

\* C32 -- Reveal request guard: when A has an outstanding reveal request
\* toward its partner B, a further request by A is answered as already
\* requested and leaves the record (requester and timestamp) unchanged; and
\* there is at most one record for the unordered pair {A, B}.
RepeatedRequest(A) ==
    LET B == activePairs[A].partnerId
    IN (getPairKey(A, B) \in DOMAIN revealRequests
          /\ revealRequests[getPairKey(A, B)].requesterId = A) =>
         /\ sent' = << sendMessage(ChatOf(A), "alreadyRequested") >>
         /\ revealRequests' = revealRequests

RevealPerformed ==
    \E i \in 1..Len(sent') :
       sent'[i].method = "sendMessage" /\ sent'[i].text = "revealAccepted"

ConsentOf(U) ==
    RevealPerformed =>
      /\ getPairKey(U, activePairs[U].partnerId) \in DOMAIN revealRequests
      /\ revealRequests[getPairKey(U, activePairs[U].partnerId)].requesterId =
            activePairs[U].partnerId

RevealNeedsConsent ==
    [][\A u \in DOMAIN activePairs :
          (HandleReveal(u) \/ RevealAccept(u)) => ConsentOf(u)]_vars

\* C34 -- Session state agrees with engine membership: in every reachable
\* state a user with a Registry entry has the session state in_chat (or
\* confirming_report) and a user with a waiting queue entry has the session
\* state searching.
SessionAgreesWithEngine ==
    /\ \A u \in DOMAIN activePairs :
          getUserState(Cur, u).state \in { USER_STATES.IN_CHAT,
                                           USER_STATES.CONFIRMING_REPORT }
    /\ \A i \in 1..Len(waitingQueue) :
          getUserState(Cur, waitingQueue[i].userId).state = USER_STATES.SEARCHING

\* C35 -- A banned user cannot enter matchmaking: while isUserBanned(u) holds
\* no operation that u starts (find and its continuation, the skip's rejoin,
\* undo) adds u to the waiting queue or creates a new pair for u.
StartedBy(u) ==
    \/ HandleFind(u)
    \/ \E p \in pending : p.userId = u /\ JoinResume(p)
    \/ HandleNext(u)
    \/ HandleUndoSkip(u)

StaysOut(u) ==
    /\ QueuedIn(waitingQueue', u) => QueuedIn(waitingQueue, u)
    /\ u \in DOMAIN activePairs' =>
          (u \in DOMAIN activePairs /\ activePairs'[u] = activePairs[u])

BannedStaysOut ==
    [][\A u \in Users : (isUserBanned(Cur, u) /\ StartedBy(u)) => StaysOut(u)]_vars

\* C36 -- Preference is respected by join: whenever a join pairs two users who
\* both declared a gender, each side with a specific preference P (male or
\* female) gets a partner whose declared gender is P.
SpecificPreferences == {"male", "female"}

Respects(a, b) ==
    a.preference \in SpecificPreferences => b.gender = a.preference

\* the join request p has just been paired with the queued entry E
PairedByJoin(p, E) ==
    /\ JoinResume(p)
    /\ p.userId \notin DOMAIN activePairs
    /\ p.userId \in DOMAIN activePairs'
    /\ activePairs'[p.userId].partnerId = E.userId

PreferenceRespected ==
    [][\A p \in pending : \A i \in 1..Len(waitingQueue) :
          LET a == UserDataOf(p)
              b == waitingQueue[i]
          IN (PairedByJoin(p, b) /\ a.gender # Unset /\ b.gender # Unset) =>
                 (Respects(a, b) /\ Respects(b, a))]_vars

\* a join has just paired a user who asked for a female partner with one who
\* asked for a male partner
SpecificPreferencesPaired ==
    /\ ResponseTypes = << "matched" >>
    /\ LET u == responses[1].userId
           v == responses[1].partnerId
       IN /\ u \in DOMAIN userStates /\ v \in DOMAIN userStates
          /\ userStates[u].preference = "female"
          /\ userStates[v].preference = "male"
          /\ userStates[u].gender = "male"
          /\ userStates[v].gender = "female"

\* C37 -- No missed match: in every reachable state the Waiting Queue holds no
\* two distinct entries that are compatible with each other (canMatch true);
\* entries without filters are compatible with every entry, so a queue of
\* such entries never holds more than one user.
FilterLess(E) == E.gender = Unset

NoMissedMatch ==
    /\ \A i, j \in 1..Len(waitingQueue) :
          i # j => ~canMatch(waitingQueue[i], waitingQueue[j])
    /\ (\E i \in 1..Len(waitingQueue) : FilterLess(waitingQueue[i]))
          => Len(waitingQueue) <= 1

\* two users wait side by side because their filters exclude each other
TwoIncompatibleWaiting ==
    /\ Len(waitingQueue) = 2
    /\ waitingQueue[1].userId # waitingQueue[2].userId
    /\ waitingQueue[1].gender # Unset /\ waitingQueue[2].gender # Unset

\* C38 -- Reveal requests do not outlive the pairing: a Reveal Request record
\* for {A, B} exists only while A and B are paired with each other, so that a
\* request left from an earlier pairing never meets a request of a later one.
PairedWith(a, b) ==
    /\ a \in DOMAIN activePairs /\ activePairs[a].partnerId = b
    /\ b \in DOMAIN activePairs /\ activePairs[b].partnerId = a

RevealRequestsWithinPairing ==
    \A key \in DOMAIN revealRequests : PairedWith(key[1], key[2])

\* C39 -- Delivery order of forwarded messages: when user A sends m1 and then
\* m2 to the same partner B, the outbound send for m1 to B's address completes
\* before the one for m2.
Forwarded(m) == m.call.method = "sendMessage" /\ m.call.text \in Payloads

SameRoute(m1, m2) == m1.from = m2.from /\ m1.call.chat_id = m2.call.chat_id

DeliveryOrder ==
    /\ \A m2 \in 1..Len(net.completed) : \A m1 \in net.inflight :
          LET c == net.completed[m2]
          IN (Forwarded(c) /\ Forwarded(m1) /\ SameRoute(m1, c)) => c.update < m1.update
    /\ \A i, j \in 1..Len(net.completed) :
          LET a == net.completed[i]
              b == net.completed[j]
          IN (Forwarded(a) /\ Forwarded(b) /\ SameRoute(a, b) /\ a.update < b.update)
                => i < j

\* C40 -- PartyKit client disconnect is final: after disconnect() on an open
\* connection the client stays disconnected; until the caller calls connect()
\* again the close event schedules no reconnect attempt and no new socket is
\* opened.
DisconnectIsFinal ==
    [][(pc.disconnected /\ pc'.disconnected) =>
          /\ pc'.timers <= pc.timers
          /\ Len(pc'.sockets) = Len(pc.sockets)
          /\ pc'.ws = 0]_vars

====
